---- MODULE Spec2Model ----
(***************************************************************************)
(* BlessedNotebook: the optimistic state synchronisation of useNotebooks   *)
(* (local forest, durable store, refetch), the per-user completion toggle, *)
(* the realtime comment thread of TaskCommentsPanel and the share-code     *)
(* join of JoinNotebookDialog.                                             *)
(*                                                                         *)
(* The viewer's forest is one notebook with one note; `notebooks` holds    *)
(* that note's `tasks` array.  The durable store is the set of rows the    *)
(* supabase client reads and writes; every request is its own step.        *)
(***************************************************************************)
EXTENDS Integers, Sequences, FiniteSets, TLC

\* ------------------------------------------------------------------ bounds
MaxMutations == 1   \* optimistic mutations in flight at the same time
MaxFetches == 1     \* fetchNotebooks calls in flight at the same time
MaxToggles == 2     \* toggleTask calls in flight at the same time
MaxDrags == 2       \* drag gestures of the viewer in one behaviour
MaxClicks == 2      \* checkbox clicks of the viewer in one behaviour
MaxJoins == 3       \* join attempts in one behaviour
MaxComments == 2    \* task_comments rows inserted in one behaviour
MaxRenames == 1     \* renameTask calls in flight at the same time
MaxDuplicates == 1  \* events the feed delivers a second time in one behaviour
MaxNoteTasks == 4   \* tasks of one note where progress is computed
MaxNotes == 2       \* notes of the notebook where progress is computed
MaxGroupTasks == 3  \* tasks of one note where the group average is computed
MaxMembers == 3     \* notebook.memberCount where the group average is computed
MaxFolderOps == 1   \* folder operations in flight at once
MaxFolderClicks == 2 \* folder operations and drags of the viewer in one behaviour
MaxAdds == 2        \* addNote, addTask, addFolder calls in flight at once
MaxCreations == 3   \* creations of the viewer in one behaviour
MaxTime == 4        \* readings of the clock in one behaviour

\* ------------------------------------------------------------- the domain
TaskOrder == <<"A", "B", "C">>          \* tasks rows, in the store's row order
Tasks == {TaskOrder[i] : i \in 1..Len(TaskOrder)}
Folders == {"F"}                        \* task_folders rows of the note
Root == "null"                          \* folder_id = null: the note's root list
Containers == Folders \cup {Root}
RootZone == "root-n1"                   \* the droppable `root-${note.id}`
Me == "me"                              \* user.id of the viewer
Users == {"me", "you"}
UserOrder == <<"me", "you">>
Accounts == Users \cup {"owner"}         \* auth.users
Notebooks == {"nb1", "nb2"}             \* notebooks rows, all owned by "owner"
Titles == {"t0", "t1"}                  \* tasks.title
FirstTitle == "t0"                      \* the title the tasks were added with

VARIABLES
    notebooks,      \* useState<Notebook[]>: the tasks array of the note
    dbTasks,        \* table tasks: id -> [folder_id, order_index]
    dbCompletions,  \* table task_completions: set of <<task_id, user_id>>
    mutations,      \* useMutation calls in flight, by slot
    fetches,        \* fetchNotebooks calls in flight, by slot
    toggles,        \* toggleTask calls in flight, by slot
    renames,        \* renameTask calls in flight, by slot
    folders,        \* useState<Notebook[]>: the folders array of the note, by id
    dbFolders,      \* table task_folders: id -> [title, is_collapsed]
    folderReads,    \* the task_folders rows a fetchNotebooks call has read, by slot
    folderOps,      \* renameFolder, deleteFolder, toggleFolderCollapse in flight, by slot
    notes,          \* useState<Notebook[]>: the notes array of the notebook
    dbNotes,        \* table notes: id -> [order_index]
    noteReads,      \* the notes rows a fetchNotebooks call has read, by slot
    adds,           \* addNote, addTask, addFolder in flight, by slot
    open,           \* TaskCommentsPanel: useState(false), the sheet is open
    comments,       \* TaskCommentsPanel: useState<CommentRow[]>, ids of the rows
    dbComments,     \* table task_comments: id -> "free", "row", "deleted"
    channel,        \* the realtime channel of the panel: "off", "joining", "on"
    events,         \* postgres_changes events on their way to the channel
    lookups,        \* profile lookups of the INSERT handler in flight, by comment id
    cfetches,       \* fetchComments calls in flight, by slot
    send,           \* handleSend in flight (`sending`)
    newText,        \* TaskCommentsPanel: useState(''), the input of the panel
    clock,          \* the time: new Date() of the client, now() of the store
    dbCreatedAt,    \* task_comments.created_at and user_id, by comment id
    lastRead,       \* localStorage task_comments_read_<task>_<user>: a time, 0 without an entry
    item,           \* TaskItem: hasComments, hasUnreadComments, its queries in flight
    itemEvents,     \* postgres_changes events on their way to TaskItem's channel
    dbNotebooks,    \* table notebooks: id -> [owner_id, is_shared, share_code]
    dbMembers,      \* table notebook_members: set of <<notebook_id, user_id>>
    dbRoles,        \* notebook_members.role: notebook_id -> user_id -> role, "none" without a row
    joins,          \* handleJoin in flight, by user
    sharing,        \* Make Private in flight, by notebook
    toast,          \* the last toast shown to each user
    obs             \* history: the operation the properties observe

folderVars == <<folders, dbFolders, folderReads, folderOps>>
noteVars == <<notes, dbNotes, noteReads, adds>>
forestVars == <<notebooks, dbTasks, dbCompletions, mutations, fetches, toggles, renames, folderVars,
                noteVars>>
itemVars == <<clock, dbCreatedAt, lastRead, item, itemEvents>>
threadVars == <<open, comments, dbComments, channel, events, lookups, cfetches, send, newText, itemVars>>
shareVars == <<dbNotebooks, dbMembers, dbRoles, joins, sharing>>
joinVars == <<shareVars, toast>>
vars == <<forestVars, threadVars, joinVars, obs>>

\* ----------------------------------------------------------- sequences
Range(s) == {s[i] : i \in DOMAIN s}

RECURSIVE SeqFilter(_, _)
\* Array.prototype.filter with the predicate given as the set of kept values.
SeqFilter(s, keep) ==
    IF s = <<>> THEN <<>>
    ELSE IF Head(s) \in keep THEN <<Head(s)>> \o SeqFilter(Tail(s), keep)
    ELSE SeqFilter(Tail(s), keep)

Ids(ts) == [i \in DOMAIN ts |-> ts[i].id]

IndexOf(s, x) == IF \E i \in DOMAIN s : s[i] = x
                 THEN CHOOSE i \in DOMAIN s : s[i] = x /\ \A j \in DOMAIN s : s[j] = x => i <= j
                 ELSE 0

\* Array.prototype.find by id; NoTask when there is none.
NoTask == [id |-> "none", title |-> "", folder_id |-> Root, order_index |-> 0,
           completedBy |-> <<>>, completions |-> <<>>]
FindTask(ts, id) == IF \E i \in DOMAIN ts : ts[i].id = id
                    THEN ts[IndexOf(Ids(ts), id)]
                    ELSE NoTask

\* note.tasks.filter(t => t.folder_id === c)  (c = Root: !t.folder_id)
TasksIn(ts, c) == SeqFilter(ts, {ts[i] : i \in {j \in DOMAIN ts : ts[j].folder_id = c}})

\* @dnd-kit arrayMove(array, from, to), 1-based here.
ArrayMove(s, from, to) ==
    LET x == s[from]
        without == [i \in 1..(Len(s) - 1) |-> IF i < from THEN s[i] ELSE s[i + 1]]
    IN [i \in 1..Len(s) |->
           IF i < to THEN without[i] ELSE IF i = to THEN x ELSE without[i - 1]]

\* ------------------------------------------------------- the durable store
RankOf(t) == IndexOf(TaskOrder, t)

\* .order('order_index', { ascending: true }): rows of equal order_index come
\* back in the store's row order.
RowBefore(db, t, u) ==
    \/ db[t].order_index < db[u].order_index
    \/ db[t].order_index = db[u].order_index /\ RankOf(t) <= RankOf(u)

RECURSIVE OrderedIds(_, _)
OrderedIds(db, S) ==
    IF S = {} THEN <<>>
    ELSE LET m == CHOOSE t \in S : \A u \in S : RowBefore(db, t, u)
         IN <<m>> \o OrderedIds(db, S \ {m})

\* completions.filter(c => c.task_id === t.id).map(c => c.user_id)
CompletedBy(compl, t) == SeqFilter(UserOrder, {u \in Users : <<t, u>> \in compl})

\* fetchNotebooks, lines 191-221: the forest built from the rows it read.
BuildForest(rows, compl) ==
    LET ids == OrderedIds(rows, DOMAIN rows)
    IN [i \in DOMAIN ids |->
           [id |-> ids[i],
            title |-> rows[ids[i]].title,
            folder_id |-> rows[ids[i]].folder_id,
            order_index |-> rows[ids[i]].order_index,
            completedBy |-> CompletedBy(compl, ids[i]),
            completions |-> CompletedBy(compl, ids[i])]]

\* ------------------------------------------------- requests in flight
NoMutation == [kind |-> "none"]
NoFetch == [pc |-> "idle"]
NoToggle == [pc |-> "idle"]
NoRename == [pc |-> "idle"]

FreeSlot(f, none) == IF \E s \in DOMAIN f : f[s] = none
                     THEN CHOOSE s \in DOMAIN f : f[s] = none /\ \A r \in DOMAIN f : f[r] = none => s <= r
                     ELSE 0

\* A settlement that starts no request.
StartNoFetch(f) == f

\* fetchNotebooks() is called: the request for the rows goes out.
StartFetch(f) == [f EXCEPT ![FreeSlot(f, NoFetch)] = [pc |-> "tasks"]]

\* Refetch: the `refetch` handed to the sidebar and the notebook view, and the
\* folder operations, which end in `await fetchNotebooks()`.
Refetch ==
    /\ FreeSlot(fetches, NoFetch) # 0
    /\ fetches' = StartFetch(fetches)
    /\ UNCHANGED <<notebooks, dbTasks, dbCompletions, mutations, toggles, renames>>

\* fetchNotebooks, lines 143-151: the tasks query is answered.
FetchTasks(s) ==
    /\ fetches[s].pc = "tasks"
    /\ fetches' = [fetches EXCEPT ![s] = [pc |-> "completions", tasks |-> dbTasks]]
    /\ UNCHANGED <<notebooks, dbTasks, dbCompletions, mutations, toggles, renames>>

\* fetchNotebooks, lines 153-183: the task_completions query is answered.
FetchCompletions(s) ==
    /\ fetches[s].pc = "completions"
    /\ fetches' = [fetches EXCEPT ![s] = [pc |-> "done", tasks |-> fetches[s].tasks,
                                          completions |-> dbCompletions]]
    /\ UNCHANGED <<notebooks, dbTasks, dbCompletions, mutations, toggles, renames>>

\* fetchNotebooks, line 225: setNotebooks(notebooksWithData).
FetchDone(s) ==
    /\ fetches[s].pc = "done"
    /\ notebooks' = BuildForest(fetches[s].tasks, fetches[s].completions)
    /\ fetches' = [fetches EXCEPT ![s] = NoFetch]
    /\ UNCHANGED <<dbTasks, dbCompletions, mutations, toggles, renames>>

\* ------------------------------------------------- optimistic mutations
\* arrayMove(tasksInContainer, oldIndex, newIndex).map((task, index) =>
\*   ({ id: task.id, order_index: index }))
NewOrderOf(ts) == [i \in DOMAIN ts |-> [id |-> ts[i].id, order_index |-> i - 1]]

\* reorderTasksMutation.onMutate, lines 604-615: the optimistic tasks array.
ReorderTasksApply(ts, newOrder) ==
    LET rootTasks == TasksIn(ts, Root)
        found == {i \in DOMAIN newOrder : FindTask(rootTasks, newOrder[i].id) # NoTask}
        mapped == [i \in DOMAIN newOrder |-> FindTask(rootTasks, newOrder[i].id)]
        reorderedTasks == SeqFilter(mapped, {mapped[i] : i \in found})
        folderTasks == SeqFilter(ts, {ts[i] : i \in {j \in DOMAIN ts : ts[j].folder_id # Root}})
    IN reorderedTasks \o folderTasks

\* A patch that lost its `task.id === taskId` test.
MoveTaskApplyAll(ts, taskId, folderId) ==
    [i \in DOMAIN ts |-> [ts[i] EXCEPT !.folder_id = folderId]]

\* moveTaskToFolderMutation.onMutate, lines 740-748: the optimistic tasks array.
MoveTaskApply(ts, taskId, folderId) ==
    [i \in DOMAIN ts |-> IF ts[i].id = taskId
                         THEN [ts[i] EXCEPT !.folder_id = folderId]
                         ELSE ts[i]]

\* reorderTasksMutation.mutate: onMutate snapshots and applies; one update per
\* entry of newOrder goes out.
ReorderTasks(newOrder) ==
    /\ FreeSlot(mutations, NoMutation) # 0
    /\ mutations' = [mutations EXCEPT ![FreeSlot(mutations, NoMutation)] =
                        [kind |-> "reorderTasks", newOrder |-> newOrder,
                         pending |-> {newOrder[i].id : i \in DOMAIN newOrder},
                         failed |-> FALSE, previousNotebooks |-> notebooks]]
    /\ notebooks' = ReorderTasksApply(notebooks, newOrder)
    /\ UNCHANGED <<dbTasks, dbCompletions, fetches, toggles, renames>>

\* moveTaskToFolderMutation.mutate: onMutate snapshots and applies; the update
\* of folder_id goes out.
MoveTaskToFolder(taskId, folderId) ==
    /\ FreeSlot(mutations, NoMutation) # 0
    /\ mutations' = [mutations EXCEPT ![FreeSlot(mutations, NoMutation)] =
                        [kind |-> "moveTask", taskId |-> taskId, folderId |-> folderId,
                         pending |-> {taskId},
                         failed |-> FALSE, previousNotebooks |-> notebooks]]
    /\ notebooks' = MoveTaskApply(notebooks, taskId, folderId)
    /\ UNCHANGED <<dbTasks, dbCompletions, fetches, toggles, renames>>

\* A handler that moves every dropped task to the root list.
HandleTaskDragEndToRoot(activeId, overId) ==
    /\ FindTask(notebooks, activeId) # NoTask
    /\ MoveTaskToFolder(activeId, Root)

\* NoteCard.handleTaskDragEnd(active, over).
HandleTaskDragEnd(activeId, overId) ==
    LET task == FindTask(notebooks, activeId)
        overTask == FindTask(notebooks, overId)
        tasksInContainer == TasksIn(notebooks, task.folder_id)
        oldIndex == IndexOf(Ids(tasksInContainer), activeId)
        newIndex == IndexOf(Ids(tasksInContainer), overId)
    IN IF overId \in Folders
       THEN /\ task # NoTask
            /\ task.folder_id # overId
            /\ MoveTaskToFolder(activeId, overId)
       ELSE IF overId = RootZone
       THEN /\ task # NoTask
            /\ task.folder_id # Root
            /\ MoveTaskToFolder(activeId, Root)
       ELSE /\ task # NoTask
            /\ overTask # NoTask
            /\ IF task.folder_id # overTask.folder_id
               THEN MoveTaskToFolder(activeId, overTask.folder_id)
               ELSE /\ oldIndex # 0
                    /\ newIndex # 0
                    /\ ReorderTasks(NewOrderOf(ArrayMove(tasksInContainer, oldIndex, newIndex)))

\* One update of reorderTasksMutation.mutationFn is answered:
\* .update({ order_index }).eq('id', id).eq('note_id', noteId), or an error.
ReorderWrite(s, id, ok) ==
    /\ mutations[s].kind = "reorderTasks"
    /\ id \in mutations[s].pending
    /\ LET e == CHOOSE e \in Range(mutations[s].newOrder) : e.id = id
       IN dbTasks' = IF ok THEN [dbTasks EXCEPT ![id].order_index = e.order_index]
                     ELSE dbTasks
    /\ mutations' = [mutations EXCEPT ![s].pending = @ \ {id},
                                      ![s].failed = @ \/ ~ok]
    /\ UNCHANGED <<notebooks, dbCompletions, fetches, toggles, renames>>

\* moveTaskToFolderMutation.mutationFn is answered:
\* .update({ folder_id: folderId }).eq('id', taskId), or an error.
MoveWrite(s, ok) ==
    /\ mutations[s].kind = "moveTask"
    /\ mutations[s].pending # {}
    /\ dbTasks' = IF ok THEN [dbTasks EXCEPT ![mutations[s].taskId].folder_id = mutations[s].folderId]
                  ELSE dbTasks
    /\ mutations' = [mutations EXCEPT ![s].pending = {}, ![s].failed = ~ok]
    /\ UNCHANGED <<notebooks, dbCompletions, fetches, toggles, renames>>

\* toast.error(...) of onError, by mutation.
FailureOf(kind) == IF kind = "reorderTasks" THEN "Failed to reorder tasks"
                   ELSE "Failed to move task"

\* A rollback that leaves the optimistic forest in place.
KeepOptimistic(ts, m) == ts

\* onError, lines 620-624 and 754-758: setNotebooks(context.previousNotebooks).
Rollback(ts, m) == IF m.failed THEN m.previousNotebooks ELSE ts

\* onError (when a write failed) then onSettled: rollback to the snapshot, the
\* failure toast, and fetchNotebooks().
Settle(s) ==
    /\ mutations[s].kind # "none"
    /\ mutations[s].pending = {}
    /\ FreeSlot(fetches, NoFetch) # 0
    /\ notebooks' = Rollback(notebooks, mutations[s])
    /\ toast' = IF mutations[s].failed
                THEN [toast EXCEPT ![Me] = FailureOf(mutations[s].kind)]
                ELSE toast
    /\ mutations' = [mutations EXCEPT ![s] = NoMutation]
    /\ fetches' = StartFetch(fetches)
    /\ UNCHANGED <<dbTasks, dbCompletions, toggles, renames>>

\* ------------------------------------------------------ initial forests
\* addTask, lines 362-372: a new task gets the largest order_index of its
\* container plus one, so rows added one after the other are numbered 0, 1, ...
AddedIndex(folderOf, t) ==
    Cardinality({u \in Tasks : folderOf[u] = folderOf[t] /\ RankOf(u) < RankOf(t)})

InitialStores ==
    {[t \in Tasks |-> [title |-> FirstTitle, folder_id |-> folderOf[t],
                        order_index |-> AddedIndex(folderOf, t)]] :
        folderOf \in [Tasks -> Containers]}

Idle ==
    /\ mutations = [s \in 1..MaxMutations |-> NoMutation]
    /\ fetches = [s \in 1..MaxFetches |-> NoFetch]
    /\ toggles = [s \in 1..MaxToggles |-> NoToggle]
    /\ renames = [s \in 1..MaxRenames |-> NoRename]

NoSend == [pc |-> "idle"]
NoFolderOp == [pc |-> "idle"]
NoAdd == [pc |-> "idle"]
NoNoteRead == [read |-> FALSE]

\* The note the forest shows, a notes row with the default of order_index.
FirstNote == "n1"

\* fetchNotebooks, lines 205-213: a note is built with its tasks and folders.
BuiltNote(id, row) ==
    [id |-> id, order_index |-> row.order_index, tasks |-> "array", folders |-> "array"]

NotesAtRest ==
    /\ dbNotes = [n \in {FirstNote} |-> [order_index |-> 0]]
    /\ notes = <<BuiltNote(FirstNote, dbNotes[FirstNote])>>
    /\ noteReads = [s \in 1..MaxFetches |-> NoNoteRead]
    /\ adds = [s \in 1..MaxAdds |-> NoAdd]

NoFolderRead == [read |-> FALSE]

\* addFolder, lines 652-656: a new folder has the title given and the
\* default of is_collapsed.
FoldersAtRest ==
    /\ dbFolders = [f \in Folders |-> [title |-> FirstTitle, is_collapsed |-> FALSE]]
    /\ folders = dbFolders
    /\ folderReads = [s \in 1..MaxFetches |-> NoFolderRead]
    /\ folderOps = [s \in 1..MaxFolderOps |-> NoFolderOp]

NoJoin == [pc |-> "idle"]

\* TaskItem as it mounts, lines 46-47: task.commentCount is not a field of the
\* tasks fetchNotebooks builds, so hasComments starts false.
MountedItem == [hasComments |-> FALSE, hasUnreadComments |-> FALSE, checks |-> {}, counts |-> 0]
NoCreated == [created_at |-> 0, user_id |-> "none"]

ItemAtRest ==
    /\ clock = 0
    /\ dbCreatedAt = [c \in 1..MaxComments |-> NoCreated]
    /\ lastRead = 0
    /\ item = MountedItem
    /\ itemEvents = <<>>

ThreadAtRest ==
    /\ open = FALSE
    /\ comments = <<>>
    /\ dbComments = [c \in 1..MaxComments |-> "free"]
    /\ channel = "off"
    /\ events = <<>>
    /\ lookups = {}
    /\ cfetches = [s \in 1..MaxFetches |-> NoFetch]
    /\ send = NoSend
    /\ newText = ""
    /\ ItemAtRest

\* A notebook as addNotebook leaves it: is_shared false (the column default)
\* and no share_code.
PrivateRow == [owner_id |-> "owner", is_shared |-> FALSE, share_code |-> "null"]

JoinAtRest ==
    /\ dbNotebooks = [n \in Notebooks |-> PrivateRow]
    /\ dbMembers = {}
    /\ dbRoles = [n \in Notebooks |-> [u \in Accounts |-> "none"]]
    /\ joins = [u \in Accounts |-> NoJoin]
    /\ sharing = [n \in Notebooks |-> "idle"]
    /\ toast = [u \in Accounts |-> "none"]

ForestAtRest ==
    /\ dbTasks = [t \in Tasks |-> [title |-> FirstTitle, folder_id |-> Root,
                                  order_index |-> RankOf(t) - 1]]
    /\ dbCompletions = {}
    /\ notebooks = BuildForest(dbTasks, dbCompletions)
    /\ Idle
    /\ FoldersAtRest
    /\ NotesAtRest

NoObs == [phase |-> "none", count |-> 0]

\* ---------------------------------------------- SpecOrder: drag and drop
\* The viewer drags tasks of the note; every write may fail; each mutation
\* settles into a refetch.  `obs` follows the latest mutation: the forest and
\* the variables it started from, and how far it has come.
InitOrder ==
    /\ ThreadAtRest
    /\ JoinAtRest
    /\ dbTasks \in InitialStores
    /\ dbCompletions = {}
    /\ notebooks = BuildForest(dbTasks, dbCompletions)
    /\ Idle
    /\ FoldersAtRest
    /\ NotesAtRest
    /\ obs = NoObs

DropTargets == Tasks \cup Folders \cup {RootZone}

ObservedMutation == mutations'[FreeSlot(mutations, NoMutation)]

DragTask ==
    \E activeId \in Tasks, overId \in DropTargets :
        /\ obs.count < MaxDrags
        /\ HandleTaskDragEnd(activeId, overId)
        /\ UNCHANGED <<folderVars, noteVars, threadVars, joinVars>>
        /\ obs' = [phase |-> "inflight", count |-> obs.count + 1,
                   before |-> notebooks, after |-> notebooks',
                   variables |-> ObservedMutation,
                   active |-> activeId, over |-> overId,
                   issued |-> Cardinality({s \in 1..MaxMutations : mutations'[s] # mutations[s]})]

WriteOrder ==
    \E s \in 1..MaxMutations, id \in Tasks, ok \in BOOLEAN :
        /\ ReorderWrite(s, id, ok)
        /\ UNCHANGED <<obs, folderVars, noteVars, threadVars, joinVars>>

WriteMove ==
    \E s \in 1..MaxMutations, ok \in BOOLEAN :
        /\ MoveWrite(s, ok)
        /\ UNCHANGED <<obs, folderVars, noteVars, threadVars, joinVars>>

SettleMutation ==
    \E s \in 1..MaxMutations :
        /\ Settle(s)
        /\ UNCHANGED <<folderVars, noteVars, threadVars, shareVars>>
        /\ obs' = [obs EXCEPT !.phase = IF mutations[s].failed THEN "rolledback" ELSE "settled"]

AnswerFetch ==
    \E s \in 1..MaxFetches :
        /\ FetchTasks(s) \/ FetchCompletions(s)
        /\ UNCHANGED <<obs, folderVars, noteVars, threadVars, joinVars>>

FinishFetch ==
    \E s \in 1..MaxFetches :
        /\ FetchDone(s)
        /\ UNCHANGED <<folderVars, noteVars, threadVars, joinVars>>
        /\ obs' = IF obs.phase = "rolledback" THEN [obs EXCEPT !.phase = "restored"]
                  ELSE IF obs.phase = "settled" THEN [obs EXCEPT !.phase = "refetched"]
                  ELSE obs

NextOrder ==
    \/ DragTask
    \/ WriteOrder
    \/ WriteMove
    \/ SettleMutation
    \/ AnswerFetch
    \/ FinishFetch

SpecOrder == InitOrder /\ [][NextOrder]_vars

\* ------------------------------------------------ properties of SpecOrder
IdSet(ts) == {ts[i].id : i \in DOMAIN ts}

ObservedReorder == obs.phase # "none" /\ obs.variables.kind = "reorderTasks"
ObservedMove == obs.phase # "none" /\ obs.variables.kind = "moveTask"

\* The container the observed reorder was made in.
ReorderedContainer == FindTask(obs.before, obs.variables.newOrder[1].id).folder_id

\* C1: right after a reorder is applied to the local forest, every container
\* holds the same ids as before and the reordered container shows its members
\* in the positions the reorder gave them.
C1_ReorderKeepsMembers ==
    ObservedReorder =>
        /\ \A c \in Containers : IdSet(TasksIn(obs.after, c)) = IdSet(TasksIn(obs.before, c))
        /\ Ids(TasksIn(obs.after, ReorderedContainer)) = Ids(obs.variables.newOrder)

\* C30: right after a reorder is applied to the local forest, every container
\* other than the reordered one shows the tasks it showed before, in the order
\* it showed them.
C30_ReorderFrame ==
    ObservedReorder =>
        \A c \in Containers \ {ReorderedContainer} :
            Ids(TasksIn(obs.after, c)) = Ids(TasksIn(obs.before, c))

\* C2: the reorder of [A, B, C] to [B, A, C] whose write failed shows
\* [A, B, C] once the rollback and the refetch are done.
C2_RollbackRestores ==
    ( /\ ObservedReorder
      /\ obs.phase = "restored"
      /\ Ids(obs.before) = <<"A", "B", "C">>
      /\ Ids(obs.variables.newOrder) = <<"B", "A", "C">> )
    => Ids(notebooks) = <<"A", "B", "C">>

\* C9: once a move to another container is written and refetched, the moved
\* task's order_index differs from that of every other task of the destination.
C9_MoveFreshIndex ==
    (ObservedMove /\ obs.phase = "refetched") =>
        \A i, j \in DOMAIN notebooks :
            ( /\ notebooks[i].id = obs.variables.taskId
              /\ notebooks[j].id # obs.variables.taskId
              /\ notebooks[j].folder_id = notebooks[i].folder_id )
            => notebooks[j].order_index # notebooks[i].order_index

C12_SettleStartsRefetch ==
    [][\A s \in 1..MaxMutations :
          (mutations[s] # NoMutation /\ mutations'[s] = NoMutation)
              => \E f \in 1..MaxFetches : fetches[f] = NoFetch /\ fetches'[f] = [pc |-> "tasks"]]_vars

\* A reorder whose writes all succeeded has settled and its refetch is out.
C12_Witness ==
    /\ ObservedReorder
    /\ obs.phase = "settled"
    /\ \A s \in 1..MaxMutations : mutations[s] = NoMutation
    /\ \E f \in 1..MaxFetches : fetches[f] = [pc |-> "tasks"]

\* The observed drag dropped the task on a task of another container.
DroppedOnSibling ==
    /\ obs.phase # "none"
    /\ obs.over \in Tasks
    /\ FindTask(obs.before, obs.over).folder_id # FindTask(obs.before, obs.active).folder_id

\* C19: a drop on a task of another container issues one mutation, a move of
\* the dragged task to the container of the task it was dropped on, and no
\* reorder.
C19_SiblingDropMoves ==
    DroppedOnSibling =>
        /\ obs.issued = 1
        /\ obs.variables.kind = "moveTask"
        /\ obs.variables.taskId = obs.active
        /\ obs.variables.folderId = FindTask(obs.before, obs.over).folder_id

\* A root task was dropped on a task of the folder and is shown in the folder.
C19_Witness ==
    /\ DroppedOnSibling
    /\ obs.phase = "inflight"
    /\ FindTask(obs.before, obs.active).folder_id = Root
    /\ FindTask(notebooks, obs.active).folder_id \in Folders

\* task t is the last member of container c
LastIn(ts, c, t) ==
    LET members == TasksIn(ts, c)
    IN members # <<>> /\ members[Len(members)].id = t

\* C20: a task dropped on a folder or on the root zone is shown after all
\* the members the destination had, right after the drop and once the move is
\* written and refetched.
C20_DropAppends ==
    (ObservedMove /\ obs.over \notin Tasks) =>
        /\ LastIn(obs.after, obs.variables.folderId, obs.active)
        /\ obs.phase = "refetched" => LastIn(notebooks, obs.variables.folderId, obs.active)

\* ------------------------------------- SpecRoundTrip: out of F and back
\* order_index as earlier reorders, moves and deletions can leave it: any value
\* of 0..MaxIndex, ties included.
MaxIndex == 2

RoundTripStores ==
    [Tasks -> [title : {FirstTitle}, folder_id : Containers, order_index : 0..MaxIndex]]

InitRoundTrip ==
    /\ ThreadAtRest
    /\ JoinAtRest
    /\ dbTasks \in RoundTripStores
    /\ dbCompletions = {}
    /\ notebooks = BuildForest(dbTasks, dbCompletions)
    /\ Idle
    /\ FoldersAtRest
    /\ NotesAtRest
    /\ obs = NoObs

\* ids of the members of folder f other than task t, in the order shown
OthersOf(ts, f, t) == SeqFilter(Ids(TasksIn(ts, f)), Tasks \ {t})

\* The viewer drags a task of a folder to the root zone or onto a root task.
DragOut ==
    \E t \in Tasks, f \in Folders, over \in Tasks \cup {RootZone} :
        /\ obs.phase = "none"
        /\ FindTask(notebooks, t).folder_id = f
        /\ over \in Tasks => FindTask(notebooks, over).folder_id = Root
        /\ HandleTaskDragEnd(t, over)
        /\ UNCHANGED <<folderVars, noteVars, threadVars, joinVars>>
        /\ obs' = [phase |-> "out", count |-> 1, taskId |-> t, folderId |-> f,
                   others |-> OthersOf(notebooks, f, t)]

\* The viewer drags the same task back onto its folder or onto a task of it.
DragBack ==
    \E over \in Tasks \cup Folders :
        /\ obs.phase = "out"
        /\ FindTask(notebooks, obs.taskId).folder_id = Root
        /\ over \in Folders => over = obs.folderId
        /\ over \in Tasks => FindTask(notebooks, over).folder_id = obs.folderId
        /\ HandleTaskDragEnd(obs.taskId, over)
        /\ UNCHANGED <<folderVars, noteVars, threadVars, joinVars>>
        /\ obs' = [obs EXCEPT !.phase = "back", !.count = 2]

SettleMove ==
    \E s \in 1..MaxMutations :
        /\ Settle(s)
        /\ UNCHANGED <<folderVars, noteVars, threadVars, shareVars>>
        /\ obs' = [obs EXCEPT !.phase = IF @ = "back" /\ ~mutations[s].failed THEN "written" ELSE @]

FinishRoundTrip ==
    \E s \in 1..MaxFetches :
        /\ FetchDone(s)
        /\ UNCHANGED <<folderVars, noteVars, threadVars, joinVars>>
        /\ obs' = [obs EXCEPT !.phase = IF @ = "written" THEN "returned" ELSE @]

NextRoundTrip ==
    \/ DragOut
    \/ DragBack
    \/ WriteMove
    \/ SettleMove
    \/ AnswerFetch
    \/ FinishRoundTrip

SpecRoundTrip == InitRoundTrip /\ [][NextRoundTrip]_vars

TogglePatchFlag(ts, taskId, isCompleted, user) ==
    [i \in DOMAIN ts |->
        IF ts[i].id = taskId
        THEN [ts[i] EXCEPT !.completedBy = IF isCompleted THEN <<>> ELSE <<user>>,
                           !.completions = IF isCompleted THEN <<>> ELSE <<user>>]
        ELSE ts[i]]

\* toggleTask, lines 489-516: the patch of the local forest.
TogglePatchApply(ts, taskId, isCompleted, user) ==
    [i \in DOMAIN ts |->
        IF ts[i].id = taskId
        THEN [ts[i] EXCEPT
                 !.completedBy = IF isCompleted THEN SeqFilter(@, Users \ {user})
                                 ELSE Append(@, user),
                 !.completions = IF isCompleted THEN SeqFilter(@, Users \ {user})
                                 ELSE Append(@, user)]
        ELSE ts[i]]

\* toggleTask, lines 449-459: the click reads the task's state and the write
\* goes out.
ToggleTask(taskId) ==
    /\ FreeSlot(toggles, NoToggle) # 0
    /\ FindTask(notebooks, taskId) # NoTask
    /\ toggles' = [toggles EXCEPT ![FreeSlot(toggles, NoToggle)] =
                      [pc |-> "write", taskId |-> taskId,
                       isCompleted |-> Me \in Range(FindTask(notebooks, taskId).completedBy)]]
    /\ UNCHANGED <<notebooks, dbTasks, dbCompletions, mutations, fetches, renames>>

\* The write is accepted when the request succeeds and, for the insert, when
\* UNIQUE (task_id, user_id) admits the row; deleting no row is not an error.
WriteAccepted(s, ok) ==
    ok /\ (toggles[s].isCompleted \/ <<toggles[s].taskId, Me>> \notin dbCompletions)

\* toggleTask, lines 461-476: the delete or the insert is answered; an error
\* ends the call in the catch block.
ToggleWrite(s, ok) ==
    /\ toggles[s].pc = "write"
    /\ dbCompletions' = IF ~WriteAccepted(s, ok) THEN dbCompletions
                        ELSE IF toggles[s].isCompleted
                        THEN dbCompletions \ {<<toggles[s].taskId, Me>>}
                        ELSE dbCompletions \cup {<<toggles[s].taskId, Me>>}
    /\ toggles' = [toggles EXCEPT ![s] = IF WriteAccepted(s, ok)
                                         THEN [toggles[s] EXCEPT !.pc = "profile"]
                                         ELSE NoToggle]
    /\ toast' = IF WriteAccepted(s, ok) THEN toast
                ELSE [toast EXCEPT ![Me] = "Failed to update task"]
    /\ UNCHANGED <<notebooks, dbTasks, mutations, fetches, renames>>

\* toggleTask, lines 478-516: the profile query is answered and the local
\* forest is patched.
TogglePatch(s) ==
    /\ toggles[s].pc = "profile"
    /\ notebooks' = TogglePatchApply(notebooks, toggles[s].taskId, toggles[s].isCompleted, Me)
    /\ toggles' = [toggles EXCEPT ![s] = NoToggle]
    /\ UNCHANGED <<dbTasks, dbCompletions, mutations, fetches, renames>>

\* ------------------------------------------------------------ renameTask
\* renameTask, lines 404-415: the patch of the local forest.
RenameApply(ts, taskId, title) ==
    [i \in DOMAIN ts |-> IF ts[i].id = taskId THEN [ts[i] EXCEPT !.title = title] ELSE ts[i]]

\* TaskItem.handleRename, lines 141-146, and renameTask, lines 395-400: the
\* edited title differs from the task's and the update goes out.
RenameTask(taskId, title) ==
    /\ FreeSlot(renames, NoRename) # 0
    /\ FindTask(notebooks, taskId) # NoTask
    /\ title # FindTask(notebooks, taskId).title
    /\ renames' = [renames EXCEPT ![FreeSlot(renames, NoRename)] =
                      [pc |-> "write", taskId |-> taskId, title |-> title]]
    /\ UNCHANGED <<notebooks, dbTasks, dbCompletions, mutations, fetches, toggles>>

\* The store answers .update({ title }).eq('id', taskId): the row is written,
\* or an error.
RenameWrite(s, ok) ==
    /\ renames[s].pc = "write"
    /\ dbTasks' = IF ok THEN [dbTasks EXCEPT ![renames[s].taskId].title = renames[s].title]
                  ELSE dbTasks
    /\ renames' = [renames EXCEPT ![s].pc = IF ok THEN "response" ELSE "error"]
    /\ UNCHANGED <<notebooks, dbCompletions, mutations, fetches, toggles>>

\* A rename that patches the forest whatever the answer was.
RenameDoneAlways(s) ==
    /\ renames[s].pc \in {"response", "error"}
    /\ notebooks' = RenameApply(notebooks, renames[s].taskId, renames[s].title)
    /\ toast' = toast
    /\ renames' = [renames EXCEPT ![s] = NoRename]
    /\ UNCHANGED <<dbTasks, dbCompletions, mutations, fetches, toggles>>

\* renameTask, lines 402-419: the response is handled: the patch, or the
\* catch block with its toast.
RenameDone(s) ==
    /\ renames[s].pc \in {"response", "error"}
    /\ notebooks' = IF renames[s].pc = "response"
                    THEN RenameApply(notebooks, renames[s].taskId, renames[s].title)
                    ELSE notebooks
    /\ toast' = IF renames[s].pc = "response" THEN toast
                ELSE [toast EXCEPT ![Me] = "Failed to rename task"]
    /\ renames' = [renames EXCEPT ![s] = NoRename]
    /\ UNCHANGED <<dbTasks, dbCompletions, mutations, fetches, toggles>>

\* ----------------------------------------- SpecToggle: completion toggles
\* The viewer clicks checkboxes, a refetch may start at any time.  `obs` keeps
\* the tasks clicked, the forest and the rows before the first click, and the
\* number of calls that ended in an error.
InitToggle ==
    /\ ThreadAtRest
    /\ JoinAtRest
    /\ dbTasks = [t \in Tasks |-> [title |-> FirstTitle, folder_id |-> Root,
                                  order_index |-> RankOf(t) - 1]]
    /\ dbCompletions \in SUBSET (Tasks \X Users)
    /\ notebooks = BuildForest(dbTasks, dbCompletions)
    /\ Idle
    /\ FoldersAtRest
    /\ NotesAtRest
    /\ obs = [phase |-> "none", count |-> 0, clicks |-> <<>>, errors |-> 0]

ClickToggle ==
    \E t \in Tasks :
        /\ obs.count < MaxClicks
        /\ ToggleTask(t)
        /\ UNCHANGED <<folderVars, noteVars, threadVars, joinVars>>
        /\ obs' = [phase |-> "toggling", count |-> obs.count + 1,
                   clicks |-> Append(obs.clicks, t),
                   errors |-> obs.errors,
                   before |-> IF obs.clicks = <<>> THEN notebooks ELSE obs.before,
                   stored |-> IF obs.clicks = <<>> THEN dbCompletions ELSE obs.stored]

WriteToggle ==
    \E s \in 1..MaxToggles, ok \in BOOLEAN :
        /\ ToggleWrite(s, ok)
        /\ UNCHANGED <<folderVars, noteVars, threadVars, shareVars>>
        /\ obs' = [obs EXCEPT !.errors = IF WriteAccepted(s, ok) THEN @ ELSE @ + 1]

PatchToggle ==
    \E s \in 1..MaxToggles :
        /\ TogglePatch(s)
        /\ UNCHANGED <<obs, folderVars, noteVars, threadVars, joinVars>>

StartRefetch ==
    /\ Refetch
    /\ UNCHANGED <<obs, folderVars, noteVars, threadVars, joinVars>>

LandFetch ==
    \E s \in 1..MaxFetches :
        /\ FetchDone(s)
        /\ UNCHANGED <<obs, folderVars, noteVars, threadVars, joinVars>>

NextToggle ==
    \/ ClickToggle
    \/ WriteToggle
    \/ PatchToggle
    \/ StartRefetch
    \/ AnswerFetch
    \/ LandFetch

SpecToggle == InitToggle /\ [][NextToggle]_vars

\* ----------------------------------------------- properties of SpecToggle
HasCompleted(ts, t, u) == u \in Range(FindTask(ts, t).completedBy)

TogglesIdle == \A s \in 1..MaxToggles : toggles[s] = NoToggle

\* C5: when the viewer has toggled the same task twice, both calls ended
\* without an error and none is in flight, the viewer's membership in the task's
\* completion set is what it was before the first toggle, in the local forest
\* and in the store.
C5_DoubleToggleRestores ==
    ( /\ obs.count = 2
      /\ obs.clicks[1] = obs.clicks[2]
      /\ obs.errors = 0
      /\ TogglesIdle )
    => /\ HasCompleted(notebooks, obs.clicks[1], Me) = HasCompleted(obs.before, obs.clicks[1], Me)
       /\ (<<obs.clicks[1], Me>> \in dbCompletions) = (<<obs.clicks[1], Me>> \in obs.stored)

\* C6: in every state of the local forest no user has two entries in a task's
\* completedBy.
C6_OneEntryPerUser ==
    \A i \in DOMAIN notebooks :
        \A j, k \in DOMAIN notebooks[i].completedBy :
            j # k => notebooks[i].completedBy[j] # notebooks[i].completedBy[k]

\* What a toggle of task t by user u must leave alone in the local forest.
SameButFor(ts, us, t, u) ==
    /\ DOMAIN us = DOMAIN ts
    /\ \A i \in DOMAIN ts :
        /\ us[i].id = ts[i].id
        /\ IF ts[i].id = t
           THEN SeqFilter(us[i].completedBy, Users \ {u}) = SeqFilter(ts[i].completedBy, Users \ {u})
           ELSE us[i].completedBy = ts[i].completedBy

\* C7: a step of a toggle of task T by the viewer, its write or its patch,
\* changes nothing but the viewer's membership in T's completion set: the other
\* users' entries of T and all entries of the other tasks stay as they are, in
\* the store and in the local forest.
C7_ToggleFrame ==
    [][\A s \in 1..MaxToggles :
          (toggles[s] # NoToggle /\ toggles'[s] # toggles[s]) =>
              /\ SameButFor(notebooks, notebooks', toggles[s].taskId, Me)
              /\ dbCompletions' \ {<<toggles[s].taskId, Me>>}
                     = dbCompletions \ {<<toggles[s].taskId, Me>>}]_vars

\* The viewer's toggle has been patched into a task that another user has
\* completed, next to tasks with entries of their own.
C7_Witness ==
    /\ obs.count = 1
    /\ TogglesIdle
    /\ ~HasCompleted(obs.before, obs.clicks[1], Me)
    /\ HasCompleted(notebooks, obs.clicks[1], Me)
    /\ HasCompleted(notebooks, obs.clicks[1], "you")
    /\ \E t \in Tasks \ {obs.clicks[1]} : HasCompleted(notebooks, t, Me)

\* ------------------------------------------ SpecDirect: direct operations
\* The viewer renames tasks and toggles completions, operations that write
\* first and patch the forest after; a refetch may start at any time.
InitDirect ==
    /\ ForestAtRest
    /\ ThreadAtRest
    /\ JoinAtRest
    /\ obs = [phase |-> "none", count |-> 0, clicks |-> <<>>, errors |-> 0,
              before |-> notebooks, stored |-> dbCompletions]

ClickRename ==
    \E t \in Tasks, title \in Titles :
        /\ obs.count < MaxClicks
        /\ RenameTask(t, title)
        /\ UNCHANGED <<folderVars, noteVars, threadVars, joinVars>>
        /\ obs' = [obs EXCEPT !.count = @ + 1]

WriteRename ==
    \E s \in 1..MaxRenames, ok \in BOOLEAN :
        /\ RenameWrite(s, ok)
        /\ UNCHANGED <<obs, folderVars, noteVars, threadVars, joinVars>>

FinishRename ==
    \E s \in 1..MaxRenames :
        /\ RenameDone(s)
        /\ UNCHANGED <<obs, folderVars, noteVars, threadVars, shareVars>>

NextDirect ==
    \/ ClickRename
    \/ WriteRename
    \/ FinishRename
    \/ ClickToggle
    \/ WriteToggle
    \/ PatchToggle
    \/ StartRefetch
    \/ AnswerFetch
    \/ LandFetch

SpecDirect == InitDirect /\ [][NextDirect]_vars

\* Nothing is in flight: no mutation, no fetchNotebooks, no toggle, no rename.
Quiescent ==
    /\ \A s \in 1..MaxMutations : mutations[s] = NoMutation
    /\ \A s \in 1..MaxFetches : fetches[s] = NoFetch
    /\ \A s \in 1..MaxRenames : renames[s] = NoRename
    /\ TogglesIdle

\* The forest shows the rows of the store: the tasks in the store's order with
\* their titles, containers and indices, each completed by the users who have
\* a task_completions row.
ShowsStore(ts) ==
    /\ Ids(ts) = OrderedIds(dbTasks, Tasks)
    /\ \A i \in DOMAIN ts :
          /\ ts[i].title = dbTasks[ts[i].id].title
          /\ ts[i].folder_id = dbTasks[ts[i].id].folder_id
          /\ ts[i].order_index = dbTasks[ts[i].id].order_index
          /\ Range(ts[i].completedBy) = {u \in Users : <<ts[i].id, u>> \in dbCompletions}

\* C13: whenever every operation has settled and every refetch has completed,
\* the local forest shows the content of the store.
C13_QuiescentShowsStore ==
    Quiescent => ShowsStore(notebooks)

TempId == 0

Count(s, x) == Cardinality({i \in DOMAIN s : s[i] = x})

\* What the viewer types into the input of the panel, and String.trim().
CommentInputs == {"hi", " yo ", " "}
Trim(x) ==
    CASE x = "hi" -> "hi"
      [] x = " yo " -> "yo"
      [] x = " " -> ""
      [] x = " t0" -> "t0"
      [] x = "t0 " -> "t0"
      [] x = " t1 " -> "t1"
      [] OTHER -> x

RECURSIVE Ascending(_)
\* .order('created_at', { ascending: true }): ids are handed out in time order.
Ascending(S) ==
    IF S = {} THEN <<>>
    ELSE LET m == CHOOSE x \in S : \A y \in S : x <= y
         IN <<m>> \o Ascending(S \ {m})

\* The rows of the task, and the id gen_random_uuid() gives the next row: one
\* that no row ever had.
Rows == {c \in DOMAIN dbComments : dbComments[c] = "row"}
Fresh(id) == dbComments[id] = "free" /\ \A c \in DOMAIN dbComments : c < id => dbComments[c] # "free"

\* A row change reaches the channel only once the subscription is joined.
Publish(type, id) == IF channel = "on" THEN Append(events, [type |-> type, id |-> id])
                     ELSE events

\* setOpen(true): the effect of lines 495-583 calls fetchComments() and
\* subscribes a new channel.
Open ==
    /\ ~open
    /\ FreeSlot(cfetches, NoFetch) # 0
    /\ open' = TRUE
    /\ cfetches' = [cfetches EXCEPT ![FreeSlot(cfetches, NoFetch)] = [pc |-> "rows"]]
    /\ channel' = "joining"
    /\ UNCHANGED <<comments, dbComments, events, lookups, send, newText>>

\* .subscribe(status => ...): the channel reports SUBSCRIBED.
Subscribed ==
    /\ channel = "joining"
    /\ channel' = "on"
    /\ UNCHANGED <<open, comments, dbComments, events, lookups, cfetches, send, newText>>

\* setOpen(false): the cleanup removes the channel, the effect clears the list.
Close ==
    /\ open
    /\ open' = FALSE
    /\ channel' = "off"
    /\ events' = <<>>
    /\ comments' = <<>>
    /\ UNCHANGED <<dbComments, lookups, cfetches, send, newText>>

\* fetchComments, lines 590-602: the rows query is answered; an error is
\* toasted, no rows end the call with an empty list.
FetchCommentRows(s, ok) ==
    /\ cfetches[s].pc = "rows"
    /\ cfetches' = [cfetches EXCEPT ![s] = IF ok /\ Rows # {}
                                           THEN [pc |-> "profiles", rows |-> Ascending(Rows)]
                                           ELSE NoFetch]
    /\ comments' = IF ok /\ Rows = {} THEN <<>> ELSE comments
    /\ toast' = IF ok THEN toast ELSE [toast EXCEPT ![Me] = "Failed to load comments"]
    /\ UNCHANGED <<open, dbComments, channel, events, lookups, send, newText>>

\* fetchComments, lines 604-631: the profiles query is answered and
\* setComments(rows) replaces the list.
FetchCommentProfiles(s) ==
    /\ cfetches[s].pc = "profiles"
    /\ comments' = cfetches[s].rows
    /\ cfetches' = [cfetches EXCEPT ![s] = NoFetch]
    /\ UNCHANGED <<open, dbComments, channel, events, lookups, send, newText>>

\* onChange of the input, line 813: setNewText(e.target.value).
TypeText(text) ==
    /\ open
    /\ text # newText
    /\ newText' = text
    /\ UNCHANGED <<open, comments, dbComments, channel, events, lookups, cfetches, send>>

\* handleSend, lines 651-672: the optimistic entry is appended, the input is
\* cleared and the insert goes out.
HandleSend ==
    /\ open
    /\ send = NoSend
    /\ Trim(newText) # ""
    /\ comments' = Append(comments, TempId)
    /\ newText' = ""
    /\ send' = [pc |-> "insert", content |-> Trim(newText)]
    /\ UNCHANGED <<open, dbComments, channel, events, lookups, cfetches>>

\* The store answers the insert of handleSend: a new row and its INSERT
\* event, or an error.
SendInsert(id, ok) ==
    /\ send.pc = "insert"
    /\ Fresh(id)
    /\ dbComments' = IF ok THEN [dbComments EXCEPT ![id] = "row"] ELSE dbComments
    /\ events' = IF ok THEN Publish("INSERT", id) ELSE events
    /\ send' = IF ok THEN [pc |-> "response", id |-> id, content |-> send.content]
                ELSE [pc |-> "error", content |-> send.content]
    /\ UNCHANGED <<open, comments, channel, lookups, cfetches, newText>>

\* A resolution that appends the real comment without looking for it.
SendResolveAppend(cs, id) == Append(SeqFilter(cs, Range(cs) \ {TempId}), id)

\* A resolution that adds the real comment and leaves the optimistic entry.
SendResolveKeepsTemp(cs, id) == IF id \in Range(cs) THEN cs ELSE Append(cs, id)

\* handleSend, lines 686-703: the optimistic entry is replaced by the real one.
SendResolve(cs, id) ==
    LET withoutTemp == SeqFilter(cs, Range(cs) \ {TempId})
    IN IF id \in Range(withoutTemp) THEN withoutTemp ELSE Append(withoutTemp, id)

\* A catch block that leaves the optimistic entry in the list.
SendRemoveNone(cs) == cs

\* handleSend, line 710: the optimistic entry is removed.
SendRemove(cs) == SeqFilter(cs, Range(cs) \ {TempId})

\* handleSend, lines 674-715: the response of the insert is handled; the catch
\* block removes the optimistic entry, toasts and restores the text.
SendDone ==
    /\ send.pc \in {"response", "error"}
    /\ comments' = IF send.pc = "response" THEN SendResolve(comments, send.id)
                   ELSE SendRemove(comments)
    /\ toast' = IF send.pc = "response" THEN toast
                ELSE [toast EXCEPT ![Me] = "Failed to send comment"]
    /\ newText' = IF send.pc = "response" THEN newText ELSE send.content
    /\ send' = NoSend
    /\ UNCHANGED <<open, dbComments, channel, events, lookups, cfetches>>

\* A collaborator's client inserts a comment on the task.
OtherInsert(id) ==
    /\ Fresh(id)
    /\ dbComments' = [dbComments EXCEPT ![id] = "row"]
    /\ events' = Publish("INSERT", id)
    /\ UNCHANGED <<open, comments, channel, lookups, cfetches, send, newText>>

\* handleDeleteComment, lines 725-739, of the viewer or of a collaborator: the
\* row is deleted; the list follows the DELETE event.
DeleteComment(id) ==
    /\ id \in Rows
    /\ dbComments' = [dbComments EXCEPT ![id] = "deleted"]
    /\ events' = Publish("DELETE", id)
    /\ UNCHANGED <<open, comments, channel, lookups, cfetches, send, newText>>

\* The feed hands the channel an event a second time.
Redeliver(i) ==
    /\ i \in DOMAIN events
    /\ events' = Append(events, events[i])
    /\ UNCHANGED <<open, comments, dbComments, channel, lookups, cfetches, send, newText>>

\* A DELETE handler that drops the last entry of the list.
ApplyDeleteLast(cs, id) ==
    IF id \in Range(cs) THEN SubSeq(cs, 1, Len(cs) - 1) ELSE cs

\* Line 565: prev.filter(c => c.id !== payload.old.id)
ApplyDelete(cs, id) == SeqFilter(cs, Range(cs) \ {id})

\* The profile lookups in flight are pairs <<comment id, number>>: two
\* deliveries of one INSERT event have a lookup each.
LookupsOf(id) == {l \in lookups : l[1] = id}
NextLookup(id) ==
    <<id, CHOOSE n \in 1..(Cardinality(LookupsOf(id)) + 1) :
              /\ <<id, n>> \notin lookups
              /\ \A m \in 1..(n - 1) : <<id, m>> \in lookups>>

\* The channel's callback, lines 514-566, runs for the next event: an INSERT
\* whose id the list does not hold starts a profile lookup, a DELETE filters.
Deliver ==
    /\ events # <<>>
    /\ events' = Tail(events)
    /\ lookups' = IF Head(events).type = "INSERT" /\ Head(events).id \notin Range(comments)
                  THEN lookups \cup {NextLookup(Head(events).id)}
                  ELSE lookups
    /\ comments' = IF Head(events).type = "DELETE"
                   THEN ApplyDelete(comments, Head(events).id)
                   ELSE comments
    /\ UNCHANGED <<open, dbComments, channel, cfetches, send, newText>>

\* A merge that appends without looking for the id.
LookupAppend(cs, id) == Append(cs, id)

\* Lines 539-557: the comment is appended unless the list has it.
LookupMerge(cs, id) == IF id \in Range(cs) THEN cs ELSE Append(cs, id)

\* Lines 531-557: the profile lookup of an INSERT event is answered.
LookupDone(l) ==
    /\ l \in lookups
    /\ lookups' = lookups \ {l}
    /\ comments' = LookupMerge(comments, l[1])
    /\ UNCHANGED <<open, dbComments, channel, events, cfetches, send, newText>>

\* ---------------------------------------------- SpecThread: the panel
\* The viewer opens and closes the panel, sends and deletes comments while a
\* collaborator writes to the same task.  `obs` keeps, for the time the panel
\* is open: `during`, the rows inserted; `shown`, those of them the list has
\* shown; `sent`, the viewer's rows sent, from click to insert, into a panel
\* that stayed open and had no fetchComments in flight at the click;
\* `echoed`, those of them whose INSERT event has been handled; `count` is 1
\* once a profile lookup for the viewer's comment was answered before the
\* response of its insert.
InitThread ==
    /\ ForestAtRest
    /\ ThreadAtRest
    /\ JoinAtRest
    /\ obs = [phase |-> "closed", count |-> 0, clean |-> FALSE,
              during |-> {}, shown |-> {}, sent |-> {}, echoed |-> {},
              duplicates |-> 0, overlapped |-> {}, removed |-> {}, again |-> {},
              deleted |-> {}, typed |-> ""]

FetchingComments == \E s \in 1..MaxFetches : cfetches[s] # NoFetch

\* `obs` after a step of the thread, given the rows the step inserted while
\* the panel was open.
Observe(o, inserted) ==
    IF ~open' THEN [o EXCEPT !.during = {}, !.shown = {}, !.sent = {}, !.echoed = {},
                            !.overlapped = {}, !.removed = {}, !.again = {}, !.deleted = {},
                            !.clean = FALSE, !.phase = "closed"]
    ELSE [o EXCEPT !.phase = "open",
                   !.during = @ \cup inserted,
                   !.shown = @ \cup ((o.during \cup inserted) \cap Range(comments'))]

ThreadOnly == UNCHANGED <<forestVars, joinVars, itemVars>>
ThreadAndToast == UNCHANGED <<forestVars, shareVars, itemVars>>

\* What the viewer types in this specification.
ThreadInputs == {"hi"}

OpenPanel ==
    /\ Open
    /\ ThreadOnly
    /\ obs' = Observe(obs, {})

JoinChannel ==
    /\ Subscribed
    /\ ThreadOnly
    /\ obs' = Observe(obs, {})

ClosePanel ==
    /\ Close
    /\ ThreadOnly
    /\ obs' = Observe(obs, {})

LoadComments ==
    \E s \in 1..MaxFetches :
        /\ \/ \E ok \in BOOLEAN : FetchCommentRows(s, ok)
           \/ FetchCommentProfiles(s) /\ UNCHANGED toast
        /\ ThreadAndToast
        /\ obs' = Observe(obs, {})

TypeComment ==
    \E text \in ThreadInputs :
        /\ TypeText(text)
        /\ ThreadOnly
        /\ obs' = Observe(obs, {})

SendComment ==
    /\ HandleSend
    /\ ThreadOnly
    /\ obs' = Observe([obs EXCEPT !.clean = ~FetchingComments, !.typed = newText], {})

StoreSentComment ==
    \E id \in 1..MaxComments, ok \in BOOLEAN :
        /\ SendInsert(id, ok)
        /\ ThreadOnly
        /\ obs' = Observe([obs EXCEPT !.sent = IF ok /\ obs.clean THEN @ \cup {id} ELSE @],
                          IF ok /\ open THEN {id} ELSE {})

FinishSend ==
    /\ SendDone
    /\ ThreadAndToast
    /\ obs' = Observe(obs, {})

CollaboratorComment ==
    \E id \in 1..MaxComments :
        /\ OtherInsert(id)
        /\ ThreadOnly
        /\ obs' = Observe(obs, IF open THEN {id} ELSE {})

RemoveComment ==
    \E id \in 1..MaxComments :
        /\ DeleteComment(id)
        /\ ThreadOnly
        /\ obs' = Observe(obs, {})

\* `overlapped`: the comments for which a second profile lookup was started
\* while the first was in flight; `removed`: the comments a DELETE event took
\* out of the list; `again`: those of them whose DELETE event was handled once
\* more.
HandleEvent ==
    /\ Deliver
    /\ ThreadOnly
    /\ LET e == Head(events)
       IN obs' = Observe([obs EXCEPT
              !.echoed = IF e.type = "INSERT" THEN @ \cup ({e.id} \cap obs.sent) ELSE @,
              !.overlapped = IF lookups' # lookups /\ LookupsOf(e.id) # {}
                             THEN @ \cup {e.id} ELSE @,
              !.again = IF e.type = "DELETE" /\ e.id \in obs.removed
                        THEN @ \cup {e.id} ELSE @,
              !.removed = IF e.type = "DELETE" /\ e.id \in Range(comments)
                          THEN @ \cup {e.id} ELSE @,
              !.deleted = IF e.type = "DELETE" THEN @ \cup {e.id} ELSE @], {})

FinishLookup ==
    \E l \in lookups :
        /\ LookupDone(l)
        /\ ThreadOnly
        /\ obs' = Observe([obs EXCEPT !.count = IF send.pc = "response" /\ send.id = l[1]
                                                THEN 1 ELSE @], {})

NextThread ==
    \/ OpenPanel
    \/ JoinChannel
    \/ ClosePanel
    \/ LoadComments
    \/ TypeComment
    \/ SendComment
    \/ StoreSentComment
    \/ FinishSend
    \/ CollaboratorComment
    \/ RemoveComment
    \/ HandleEvent
    \/ FinishLookup

SpecThread == InitThread /\ [][NextThread]_vars

\* ----------------------------------------------- properties of SpecThread
\* The send of comment c and its echo are over: the response is handled, the
\* INSERT event is handled and its profile lookup is answered.
EchoSettled(c) ==
    /\ c \in obs.echoed
    /\ LookupsOf(c) = {}
    /\ ~(send.pc = "response" /\ send.id = c)

C4_ShownStays ==
    open => \A c \in obs.shown : c \in Rows => c \in Range(comments)

\* C33: while the panel stays open, the list holds no comment whose DELETE
\* event the panel has handled since it was opened.
C33_DeletedStaysOut ==
    open => \A c \in obs.deleted : c \notin Range(comments)

\* C18: once the panel is closed, no step that ends the handling of a push
\* event, the answer of a pending profile lookup included, changes the list.
C18_ClosedThreadStays ==
    [][(~open /\ ~open' /\ lookups' # lookups) => comments' = comments]_vars

\* ------------------------------------------- SpecFeed: duplicate delivery
\* The thread of SpecThread, opened once and left open, behind a feed that
\* may hand an event to the channel twice.
DuplicateEvent ==
    \E i \in 1..(2 * MaxComments + MaxDuplicates) :
        /\ obs.duplicates < MaxDuplicates
        /\ Redeliver(i)
        /\ ThreadOnly
        /\ obs' = Observe([obs EXCEPT !.duplicates = @ + 1], {})

NextFeed ==
    \/ OpenPanel
    \/ JoinChannel
    \/ LoadComments
    \/ TypeComment
    \/ SendComment
    \/ StoreSentComment
    \/ FinishSend
    \/ CollaboratorComment
    \/ RemoveComment
    \/ HandleEvent
    \/ FinishLookup
    \/ DuplicateEvent

SpecFeed == InitThread /\ [][NextFeed]_vars

C16_DeleteOnce ==
    [][/\ \A c \in 1..MaxComments :
              ApplyDelete(ApplyDelete(comments, c), c) = ApplyDelete(comments, c)
       /\ (open /\ open' /\ events # <<>> /\ events' = Tail(events)
              /\ Head(events).type = "DELETE") =>
             /\ Head(events).id \notin Range(comments')
             /\ Head(events).id \notin Range(comments) => comments' = comments
             /\ comments' = SeqFilter(comments, (0..MaxComments) \ {Head(events).id})]_vars

\* A DELETE event took a comment out of the list and was handled once more,
\* with another entry in the list.
C16_Witness ==
    /\ open
    /\ obs.again # {}
    /\ comments # <<>>
    /\ \A c \in obs.again : c \notin Range(comments)

\* C34: when no send is in flight the list holds no entry with the temporary
\* id, whatever fetchComments landed and however the panel was closed and
\* opened while the send was in flight.
C34_NoTempWhenIdle ==
    send = NoSend => TempId \notin Range(comments)

\* A send into the open panel succeeded and was resolved: the real comment is
\* in the list and the input is empty.
C34_Witness ==
    /\ open
    /\ send = NoSend
    /\ obs.sent # {}
    /\ obs.sent \subseteq Range(comments)
    /\ newText = ""

\* ------------------------------------------------ SpecSend: sending
\* The viewer types any input and sends; the panel is not closed and no
\* comment is deleted.
TypeAnyComment ==
    \E text \in CommentInputs :
        /\ TypeText(text)
        /\ ThreadOnly
        /\ obs' = Observe(obs, {})

NextSend ==
    \/ OpenPanel
    \/ JoinChannel
    \/ LoadComments
    \/ TypeAnyComment
    \/ SendComment
    \/ StoreSentComment
    \/ FinishSend
    \/ CollaboratorComment
    \/ HandleEvent
    \/ FinishLookup

SpecSend == InitThread /\ [][NextSend]_vars

\* C17: the step that handles a failed insert of a sent comment removes the
\* optimistic entry, keeps every other entry of the list, in order, puts the
\* sent content, the typed text trimmed, back into the input and raises
\* "Failed to send comment".
C17_SendFailure ==
    [][(send.pc = "error" /\ send' = NoSend) =>
          /\ TempId \notin Range(comments')
          /\ comments' = SeqFilter(comments, 1..MaxComments)
          /\ newText' = Trim(obs.typed)
          /\ toast'[Me] = "Failed to send comment"]_vars

\* A send of " yo " failed next to a comment of the collaborator: the entry is
\* gone, the collaborator's is there, the input holds "yo".
C17_Witness ==
    /\ open
    /\ send = NoSend
    /\ obs.typed = " yo "
    /\ newText = "yo"
    /\ toast[Me] = "Failed to send comment"
    /\ comments # <<>>
    /\ TempId \notin Range(comments)

\* ------------------------------------------------- joining by share code
Codes == {"K7", "M9"}                   \* what generate_share_code() returns
ShareInputs == {" k7", "M9 ", "ZZ", " "}  \* what a user types into the dialog

\* shareCode.trim().toUpperCase()
Normalize(x) ==
    CASE x = " k7" -> "K7"
      [] x = "M9 " -> "M9"
      [] x = "ZZ" -> "ZZ"
      [] x = " " -> ""

\* Row level security of notebooks for SELECT: the owner, and every
\* authenticated user once the notebook is shared under a code.  The member
\* branch of the first policy compares notebook_members.notebook_id with the
\* unqualified `id` of its own subquery and admits no row.
Visible(u, n) ==
    \/ dbNotebooks[n].owner_id = u
    \/ dbNotebooks[n].is_shared /\ dbNotebooks[n].share_code # "null"

\* .from('notebooks').eq('share_code', code).maybeSingle(): share_code is
\* UNIQUE, so at most one row; "none" for data === null.
FindByCode(u, code) ==
    IF \E n \in Notebooks : Visible(u, n) /\ dbNotebooks[n].share_code = code
    THEN CHOOSE n \in Notebooks : Visible(u, n) /\ dbNotebooks[n].share_code = code
    ELSE "none"

\* A membership query that finds nobody.
NoExistingMember(u, n) == FALSE

\* .from('notebook_members').eq('notebook_id', id).eq('user_id', user.id)
\* .maybeSingle(): the user's own row, which is_notebook_member lets them see.
ExistingMember(u, n) == <<n, u>> \in dbMembers

\* handleJoin, lines 29-32: the click on Join.
HandleJoin(u, input) ==
    /\ joins[u] = NoJoin
    /\ Normalize(input) # ""
    /\ joins' = [joins EXCEPT ![u] = [pc |-> "lookup", code |-> Normalize(input)]]
    /\ UNCHANGED <<dbNotebooks, dbMembers, dbRoles, sharing, toast>>

\* handleJoin, lines 36-55: the lookup by share code is answered.
JoinLookup(u, ok) ==
    /\ joins[u].pc = "lookup"
    /\ LET notebook == FindByCode(u, joins[u].code)
       IN IF ~ok
          THEN /\ toast' = [toast EXCEPT ![u] = "Error finding notebook"]
               /\ joins' = [joins EXCEPT ![u] = NoJoin]
          ELSE IF notebook = "none"
          THEN /\ toast' = [toast EXCEPT ![u] = "Invalid share code"]
               /\ joins' = [joins EXCEPT ![u] = NoJoin]
          ELSE IF ~dbNotebooks[notebook].is_shared
          THEN /\ toast' = [toast EXCEPT ![u] = "This notebook is not shared"]
               /\ joins' = [joins EXCEPT ![u] = NoJoin]
          ELSE /\ toast' = toast
               /\ joins' = [joins EXCEPT ![u] = [pc |-> "member", code |-> joins[u].code,
                                                 notebook |-> notebook]]
    /\ UNCHANGED <<dbNotebooks, dbMembers, dbRoles, sharing>>

\* handleJoin, lines 57-68: the membership query is answered; its error is
\* not looked at, so a failed query counts as no row.
JoinCheckMember(u, ok) ==
    /\ joins[u].pc = "member"
    /\ IF ok /\ ExistingMember(u, joins[u].notebook)
       THEN /\ toast' = [toast EXCEPT ![u] = "You are already a member of this notebook"]
            /\ joins' = [joins EXCEPT ![u] = NoJoin]
       ELSE /\ toast' = toast
            /\ joins' = [joins EXCEPT ![u].pc = "insert"]
    /\ UNCHANGED <<dbNotebooks, dbMembers, dbRoles, sharing>>

\* handleJoin, lines 70-87: the insert of the reader row is answered; UNIQUE
\* (notebook_id, user_id) refuses a second row.
JoinInsert(u, ok) ==
    /\ joins[u].pc = "insert"
    /\ IF ok /\ <<joins[u].notebook, u>> \notin dbMembers
       THEN /\ dbMembers' = dbMembers \cup {<<joins[u].notebook, u>>}
            /\ dbRoles' = [dbRoles EXCEPT ![joins[u].notebook][u] = "reader"]
            /\ toast' = [toast EXCEPT ![u] = "Joined"]
       ELSE /\ dbMembers' = dbMembers
            /\ dbRoles' = dbRoles
            /\ toast' = [toast EXCEPT ![u] = "Failed to join notebook"]
    /\ joins' = [joins EXCEPT ![u] = NoJoin]
    /\ UNCHANGED <<dbNotebooks, sharing>>

\* MembersPanel.generateShareCode, lines 172-200: one UPDATE sets share_code
\* and is_shared; UNIQUE (share_code) refuses a code another notebook has.
GenerateShareCode(n, code, ok) ==
    /\ sharing[n] = "idle"
    /\ dbNotebooks' = IF ok /\ \A m \in Notebooks \ {n} : dbNotebooks[m].share_code # code
                      THEN [dbNotebooks EXCEPT ![n].share_code = code, ![n].is_shared = TRUE]
                      ELSE dbNotebooks
    /\ UNCHANGED <<dbMembers, dbRoles, joins, sharing, toast>>

\* MembersPanel, Make Private, lines 322-328: the members are deleted.
MakePrivateDelete(n, ok) ==
    /\ sharing[n] = "idle"
    /\ dbNotebooks[n].is_shared
    /\ dbMembers' = IF ok THEN {r \in dbMembers : r[1] # n} ELSE dbMembers
    /\ dbRoles' = IF ok THEN [dbRoles EXCEPT ![n] = [u \in Accounts |-> "none"]] ELSE dbRoles
    /\ sharing' = [sharing EXCEPT ![n] = IF ok THEN "update" ELSE "idle"]
    /\ UNCHANGED <<dbNotebooks, joins, toast>>

\* MembersPanel, Make Private, lines 330-338: one UPDATE clears is_shared and
\* share_code.
MakePrivateUpdate(n, ok) ==
    /\ sharing[n] = "update"
    /\ dbNotebooks' = IF ok THEN [dbNotebooks EXCEPT ![n].share_code = "null", ![n].is_shared = FALSE]
                      ELSE dbNotebooks
    /\ sharing' = [sharing EXCEPT ![n] = "idle"]
    /\ UNCHANGED <<dbMembers, dbRoles, joins, toast>>

\* ----------------------------------------------------- SpecJoin
\* The owner shares and unshares the notebooks while users join by code.
InitJoin ==
    /\ ForestAtRest
    /\ ThreadAtRest
    /\ JoinAtRest
    /\ obs = NoObs

JoinOnly == UNCHANGED <<forestVars, threadVars>>

ClickJoin ==
    \E u \in Accounts, input \in ShareInputs :
        /\ obs.count < MaxJoins
        /\ HandleJoin(u, input)
        /\ JoinOnly
        /\ obs' = [obs EXCEPT !.count = @ + 1]

AnswerLookup ==
    \E u \in Accounts, ok \in BOOLEAN :
        /\ JoinLookup(u, ok)
        /\ JoinOnly
        /\ UNCHANGED obs

AnswerMemberCheck ==
    \E u \in Accounts, ok \in BOOLEAN :
        /\ JoinCheckMember(u, ok)
        /\ JoinOnly
        /\ UNCHANGED obs

AnswerInsert ==
    \E u \in Accounts, ok \in BOOLEAN :
        /\ JoinInsert(u, ok)
        /\ JoinOnly
        /\ UNCHANGED obs

ShareNotebook ==
    \E n \in Notebooks, code \in Codes, ok \in BOOLEAN :
        /\ GenerateShareCode(n, code, ok)
        /\ JoinOnly
        /\ UNCHANGED obs

MakePrivate ==
    \E n \in Notebooks, ok \in BOOLEAN :
        /\ MakePrivateDelete(n, ok) \/ MakePrivateUpdate(n, ok)
        /\ JoinOnly
        /\ UNCHANGED obs

NextJoin ==
    \/ ClickJoin
    \/ AnswerLookup
    \/ AnswerMemberCheck
    \/ AnswerInsert
    \/ ShareNotebook
    \/ MakePrivate

SpecJoin == InitJoin /\ [][NextJoin]_vars

\* ------------------------------------------------- properties of SpecJoin
\* The three causes, read off the store.
MatchesNoNotebook(code) == \A n \in Notebooks : dbNotebooks[n].share_code # code
MatchesUnshared(code) == \E n \in Notebooks : dbNotebooks[n].share_code = code /\ ~dbNotebooks[n].is_shared
AlreadyMember(u, n) == <<n, u>> \in dbMembers

Refused(u, message) ==
    /\ dbMembers' = dbMembers
    /\ joins'[u] = NoJoin
    /\ toast'[u] = message

C35_PrivateHasNoMembers ==
    \A n \in Notebooks :
        (~dbNotebooks[n].is_shared /\ dbNotebooks[n].share_code = "null")
            => \A u \in Accounts : <<n, u>> \notin dbMembers

\* ------------------------------------------------------------------ roles
\* MembersPanel.updateMemberRole, lines 209-226: the owner's Select on the
\* row of a listed member (the owner's own row is never listed, line 151);
\* one UPDATE, allowed to the owner of the notebook.
UpdateMemberRole(n, u, newRole, ok) ==
    /\ sharing[n] = "idle"
    /\ u # dbNotebooks[n].owner_id
    /\ <<n, u>> \in dbMembers
    /\ newRole # dbRoles[n][u]
    /\ dbRoles' = IF ok THEN [dbRoles EXCEPT ![n][u] = newRole] ELSE dbRoles
    /\ toast' = [toast EXCEPT ![dbNotebooks[n].owner_id] =
                     IF ok THEN "Role updated" ELSE "Failed to update role"]
    /\ UNCHANGED <<dbNotebooks, dbMembers, joins, sharing>>

\* MembersPanel.removeMember, lines 228-245: one DELETE of a listed member.
RemoveMember(n, u, ok) ==
    /\ sharing[n] = "idle"
    /\ u # dbNotebooks[n].owner_id
    /\ <<n, u>> \in dbMembers
    /\ dbMembers' = IF ok THEN dbMembers \ {<<n, u>>} ELSE dbMembers
    /\ dbRoles' = IF ok THEN [dbRoles EXCEPT ![n][u] = "none"] ELSE dbRoles
    /\ toast' = [toast EXCEPT ![dbNotebooks[n].owner_id] =
                     IF ok THEN "Member removed" ELSE "Failed to remove member"]
    /\ UNCHANGED <<dbNotebooks, joins, sharing>>

\* fetchNotebooks, lines 107-121: userRole of the viewer for a notebook it
\* lists; the owner test comes first, a viewer with no row is a reader.
UserRole(u, n) ==
    IF dbNotebooks[n].owner_id = u THEN "owner"
    ELSE IF dbRoles[n][u] # "none" THEN dbRoles[n][u]
    ELSE "reader"

\* get_notebook_role(notebook_uuid) for auth.uid() = u: COALESCE of the
\* member row's role and of 'owner' for the owner; NULL for neither.
GetNotebookRole(u, n) ==
    IF dbRoles[n][u] # "none" THEN dbRoles[n][u]
    ELSE IF dbNotebooks[n].owner_id = u THEN "owner"
    ELSE "null"

\* ------------------------------------------------------- SpecRole
\* SpecJoin with the owner changing the roles of members and removing them.
ChangeRole ==
    \E n \in Notebooks, u \in Accounts, newRole \in {"admin", "reader"}, ok \in BOOLEAN :
        /\ UpdateMemberRole(n, u, newRole, ok)
        /\ JoinOnly
        /\ UNCHANGED obs

DropMember ==
    \E n \in Notebooks, u \in Accounts, ok \in BOOLEAN :
        /\ RemoveMember(n, u, ok)
        /\ JoinOnly
        /\ UNCHANGED obs

NextRole ==
    \/ ClickJoin
    \/ AnswerLookup
    \/ AnswerMemberCheck
    \/ AnswerInsert
    \/ ShareNotebook
    \/ MakePrivate
    \/ ChangeRole
    \/ DropMember

SpecRole == InitJoin /\ [][NextRole]_vars

\* ------------------------------------------------- properties of SpecRole
\* C21: for every notebook and the user who owns it, both role resolutions,
\* the client's userRole and the store's get_notebook_role, yield owner,
\* whether or not the owner has a notebook_members row and whatever its role.
C21_OwnerIsOwner ==
    \A n \in Notebooks :
        /\ UserRole(dbNotebooks[n].owner_id, n) = "owner"
        /\ GetNotebookRole(dbNotebooks[n].owner_id, n) = "owner"

\* ------------------------------------------------------- SpecReader
\* The viewer is a reader of the notebook of the forest: the notebook is
\* shared under a code and the viewer has joined it.  The edit controls are
\* not rendered (canEdit), the drag handles of SortableTaskItem and
\* handleTaskDragEnd are; the store applies its policies to every write.
ForestNotebook == "nb1"

\* The policies "Owners and admins can update tasks" and its siblings:
\* get_notebook_role(notebook_id) IN ('owner', 'admin').
CanWrite(u) == GetNotebookRole(u, ForestNotebook) \in {"owner", "admin"}

\* NotebookView, lines 259-261: canEdit of the viewer.
CanEdit(u) == UserRole(u, ForestNotebook) \in {"owner", "admin"}

\* One update of reorderTasksMutation.mutationFn by a user the UPDATE policy
\* does not admit: no row qualifies, none is changed, no error comes back.
ReorderDenied(s, id) ==
    /\ ~CanWrite(Me)
    /\ mutations[s].kind = "reorderTasks"
    /\ id \in mutations[s].pending
    /\ mutations' = [mutations EXCEPT ![s].pending = @ \ {id}]
    /\ UNCHANGED <<notebooks, dbTasks, dbCompletions, fetches, toggles, renames>>

\* The update of moveTaskToFolderMutation.mutationFn by such a user.
MoveDenied(s) ==
    /\ ~CanWrite(Me)
    /\ mutations[s].kind = "moveTask"
    /\ mutations[s].pending # {}
    /\ mutations' = [mutations EXCEPT ![s].pending = {}]
    /\ UNCHANGED <<notebooks, dbTasks, dbCompletions, fetches, toggles, renames>>

SharedWithReader ==
    /\ dbNotebooks = [n \in Notebooks |->
                         IF n = ForestNotebook
                         THEN [owner_id |-> "owner", is_shared |-> TRUE, share_code |-> "K7"]
                         ELSE PrivateRow]
    /\ dbMembers = {<<ForestNotebook, Me>>}
    /\ dbRoles = [n \in Notebooks |-> [u \in Accounts |->
                     IF n = ForestNotebook /\ u = Me THEN "reader" ELSE "none"]]
    /\ joins = [u \in Accounts |-> NoJoin]
    /\ sharing = [n \in Notebooks |-> "idle"]
    /\ toast = [u \in Accounts |-> "none"]

InitReader ==
    /\ ThreadAtRest
    /\ SharedWithReader
    /\ dbTasks \in InitialStores
    /\ dbCompletions = {}
    /\ notebooks = BuildForest(dbTasks, dbCompletions)
    /\ Idle
    /\ FoldersAtRest
    /\ NotesAtRest
    /\ obs = NoObs

\* A write of the reader: refused by the policy, or lost on the way.
ReaderWriteOrder ==
    \E s \in 1..MaxMutations, id \in Tasks :
        /\ ReorderDenied(s, id) \/ ReorderWrite(s, id, FALSE)
        /\ UNCHANGED <<obs, folderVars, noteVars, threadVars, joinVars>>

ReaderWriteMove ==
    \E s \in 1..MaxMutations :
        /\ MoveDenied(s) \/ MoveWrite(s, FALSE)
        /\ UNCHANGED <<obs, folderVars, noteVars, threadVars, joinVars>>

NextReader ==
    \/ DragTask
    \/ ReaderWriteOrder
    \/ ReaderWriteMove
    \/ SettleMutation
    \/ AnswerFetch
    \/ FinishFetch

SpecReader == InitReader /\ [][NextReader]_vars

\* ----------------------------------------------- properties of SpecReader
\* id, title, container and position of every task, in array order.
Structure(ts) == [i \in DOMAIN ts |-> [id |-> ts[i].id, title |-> ts[i].title,
                                      folder_id |-> ts[i].folder_id,
                                      order_index |-> ts[i].order_index]]

\* C22: while the viewer's role is reader, no step changes the structure of
\* the local forest (ids, titles, containers, positions, array order), not
\* even optimistically, and no step changes the tasks rows of the store.
C22_ReaderKeepsStructure ==
    [][(UserRole(Me, ForestNotebook) = "reader" /\ ~CanEdit(Me)) =>
          /\ Structure(notebooks') = Structure(notebooks)
          /\ dbTasks' = dbTasks]_vars

\* --------------------------------------------------------------- progress
\* Math.round((completed / total) * 100) for 0 <= completed <= total, total > 0:
\* the nearest integer, a half going up.
MathRoundPercent(completed, total) == (200 * completed + total) \div (2 * total)

\* task.completedBy.includes(userId)
Includes(completedBy, userId) == \E i \in DOMAIN completedBy : completedBy[i] = userId

\* tasks.filter(task => task.completedBy.includes(userId)).length
CompletedCount(tasks, userId) ==
    Cardinality({i \in DOMAIN tasks : Includes(tasks[i].completedBy, userId)})

\* notebook.notes.flatMap(note => note.tasks)
RECURSIVE FlatMapTasks(_)
FlatMapTasks(ns) ==
    IF ns = <<>> THEN <<>> ELSE Head(ns).tasks \o FlatMapTasks(Tail(ns))

NoProgress == [completed |-> 0, total |-> 0, percentage |-> 0]

\* A progress that cuts the fraction off.
ProgressOfFloor(tasks, userId) ==
    IF Len(tasks) = 0 THEN NoProgress
    ELSE [completed |-> CompletedCount(tasks, userId), total |-> Len(tasks),
          percentage |-> (100 * CompletedCount(tasks, userId)) \div Len(tasks)]

\* The body shared by calculateNoteProgress and calculateProgress.
ProgressOf(tasks, userId) ==
    IF Len(tasks) = 0 THEN NoProgress
    ELSE [completed |-> CompletedCount(tasks, userId), total |-> Len(tasks),
          percentage |-> MathRoundPercent(CompletedCount(tasks, userId), Len(tasks))]

\* NoteCard: calculateNoteProgress(note, userId).
CalculateNoteProgress(note, userId) == ProgressOf(note.tasks, userId)

\* NotebookView and NotebookSidebar: calculateProgress(notebook, userId).
CalculateProgress(notebook, userId) == ProgressOf(FlatMapTasks(notebook.notes), userId)

\* ------------------------------------------------------- SpecProgress
\* A notebook of up to MaxNotes notes of up to MaxNoteTasks tasks is
\* rendered for either user: the note cards and the header of the view.
CompletedByLists == {<<>>, <<"me">>, <<"you", "me">>}
ProgressTasks == {[completedBy |-> c] : c \in CompletedByLists}
ProgressNotes == {[tasks |-> ts] : ts \in UNION {[1..k -> ProgressTasks] : k \in 0..MaxNoteTasks}}
ProgressNotebooks == {[notes |-> ns] : ns \in UNION {[1..k -> ProgressNotes] : k \in 0..MaxNotes}}

InitProgress ==
    /\ ForestAtRest
    /\ ThreadAtRest
    /\ JoinAtRest
    /\ \E nb \in ProgressNotebooks :
           obs = [phase |-> "none", notebook |-> nb, note |-> 0, user |-> "none",
                  progress |-> NoProgress]

RenderNoteCard ==
    \E i \in 1..MaxNotes, u \in Users :
        /\ i \in DOMAIN obs.notebook.notes
        /\ obs' = [obs EXCEPT !.phase = "note", !.note = i, !.user = u,
                              !.progress = CalculateNoteProgress(obs.notebook.notes[i], u)]
        /\ UNCHANGED <<forestVars, threadVars, joinVars>>

RenderNotebookView ==
    \E u \in Users :
        /\ obs' = [obs EXCEPT !.phase = "notebook", !.note = 0, !.user = u,
                              !.progress = CalculateProgress(obs.notebook, u)]
        /\ UNCHANGED <<forestVars, threadVars, joinVars>>

NextProgress ==
    \/ RenderNoteCard
    \/ RenderNotebookView

SpecProgress == InitProgress /\ [][NextProgress]_vars

\* --------------------------------------------- properties of SpecProgress
\* The tasks in the scope that was rendered last.
ScopeTasks == IF obs.phase = "note" THEN obs.notebook.notes[obs.note].tasks
              ELSE FlatMapTasks(obs.notebook.notes)

\* The tasks in scope whose completion set contains the user.
ScopeCompleted == {i \in DOMAIN ScopeTasks : obs.user \in Range(ScopeTasks[i].completedBy)}

\* p is 100 * completed / total rounded to the nearest integer, halves up.
IsRounded(p, completed, total) ==
    /\ 2 * total * p - total <= 200 * completed
    /\ 200 * completed < 2 * total * p + total

RECURSIVE TotalCompletions(_)
TotalCompletions(tasks) ==
    IF tasks = <<>> THEN 0 ELSE Len(Head(tasks).completedBy) + TotalCompletions(Tail(tasks))

\* A group average that forgets the members.
CalculateGroupAverageOfOne(notebook) ==
    LET allTasks == FlatMapTasks(notebook.notes)
    IN IF Len(allTasks) = 0 \/ notebook.memberCount = 0 THEN NoProgress
       ELSE [completed |-> 0, total |-> 0,
             percentage |-> MathRoundPercent(TotalCompletions(allTasks), Len(allTasks))]

\* NotebookView: calculateGroupAverage(notebook).
CalculateGroupAverage(notebook) ==
    LET allTasks == FlatMapTasks(notebook.notes)
        total == Len(allTasks)
    IN IF total = 0 \/ notebook.memberCount = 0 THEN NoProgress
       ELSE [completed |-> 0, total |-> 0,
             percentage |-> MathRoundPercent(TotalCompletions(allTasks),
                                             total * notebook.memberCount)]

\* ---------------------------------------------------------- SpecGroup
\* The header of a shared notebook is rendered.  completedBy is the array the
\* forest holds, which may list a user twice; memberCount is what the
\* Notebook type allows, 0 included (fetchNotebooks sets the rows plus one).
GroupLists == {<<>>, <<"me">>, <<"you", "me">>, <<"me", "me">>}
GroupTasks == {[completedBy |-> c] : c \in GroupLists}
GroupNotes == {[tasks |-> ts] : ts \in UNION {[1..k -> GroupTasks] : k \in 0..MaxGroupTasks}}
GroupNotebooks ==
    {[notes |-> ns, memberCount |-> m] :
        ns \in UNION {[1..k -> GroupNotes] : k \in 0..MaxNotes}, m \in 0..MaxMembers}

InitGroup ==
    /\ ForestAtRest
    /\ ThreadAtRest
    /\ JoinAtRest
    /\ \E nb \in GroupNotebooks :
           obs = [phase |-> "none", notebook |-> nb, progress |-> NoProgress]

RenderGroupProgress ==
    /\ obs.phase = "none"
    /\ obs' = [obs EXCEPT !.phase = "group",
                          !.progress = CalculateGroupAverage(obs.notebook)]
    /\ UNCHANGED <<forestVars, threadVars, joinVars>>

\* The header is rendered again: the same notebook gives the same average.
RenderGroupAgain ==
    /\ obs.phase \in {"group", "again"}
    /\ obs' = [obs EXCEPT !.phase = "again",
                          !.progress = CalculateGroupAverage(obs.notebook)]
    /\ UNCHANGED <<forestVars, threadVars, joinVars>>

NextGroup ==
    \/ RenderGroupProgress
    \/ RenderGroupAgain

SpecGroup == InitGroup /\ [][NextGroup]_vars

\* ------------------------------------------------ properties of SpecGroup
GroupTaskCount == Len(FlatMapTasks(obs.notebook.notes))

\* The entries of the completion sets of all tasks of the notebook.
GroupEntries ==
    LET ts == FlatMapTasks(obs.notebook.notes)
    IN Cardinality({<<i, j>> \in (1..(MaxNotes * MaxGroupTasks)) \X (1..2) :
                        i \in DOMAIN ts /\ j \in DOMAIN ts[i].completedBy})

C37_PercentageInRange ==
    obs.phase \in {"group", "again"} => obs.progress.percentage \in 0..100

\* ----------------------------------------------- TaskItem: unread comments
\* .gt('created_at', lastReadTimestamp).limit(1): is there a newer comment.
RecentComments(since) == \E c \in Rows : dbCreatedAt[c].created_at > since

\* An opening that leaves the unread mark alone.
OnCommentsOpenedKeepsMark(it) == it

\* onCommentsOpened, TaskItem lines 237-242: setHasUnreadComments(false); the
\* caller stores new Date() under the key.
OnCommentsOpened(it) == [it EXCEPT !.hasUnreadComments = FALSE]

\* What follows a handler that leaves TaskItem with the state `it`: a changed
\* state renders TaskItem, the render hands the panel a new onCommentsOpened,
\* and the effect of the panel (part_003 489-493) calls it while the panel is
\* open; then the effect of lines 52-83 runs if hasComments changed, with no
\* comments, with no stored time, or with a query for newer comments.
StoredAfter(it) == IF open /\ it # item THEN clock + 1 ELSE lastRead

Commit(it) ==
    LET rendered == it # item
        flipped == it.hasComments # item.hasComments
        opened == IF open /\ rendered THEN OnCommentsOpened(it) ELSE it
    IN /\ open /\ rendered => clock < MaxTime
       /\ clock' = IF open /\ rendered THEN clock + 1 ELSE clock
       /\ lastRead' = StoredAfter(it)
       /\ item' = IF flipped /\ ~it.hasComments
                  THEN [opened EXCEPT !.hasUnreadComments = FALSE]
                  ELSE IF flipped /\ StoredAfter(it) = 0
                  THEN [opened EXCEPT !.hasUnreadComments = TRUE]
                  ELSE IF flipped
                  THEN [opened EXCEPT !.checks = @ \cup {StoredAfter(it)}]
                  ELSE opened

\* The panel opens: Open, and its effect calls onCommentsOpened.
OpenItem ==
    /\ Open
    /\ clock < MaxTime
    /\ clock' = clock + 1
    /\ lastRead' = clock + 1
    /\ item' = OnCommentsOpened(item)
    /\ UNCHANGED <<dbCreatedAt, itemEvents>>

\* A collaborator's client inserts a comment: created_at is now(), and the
\* row reaches both channels of the task.
InsertByOther(id) ==
    /\ OtherInsert(id)
    /\ clock < MaxTime
    /\ clock' = clock + 1
    /\ dbCreatedAt' = [dbCreatedAt EXCEPT ![id] = [created_at |-> clock + 1, user_id |-> "you"]]
    /\ itemEvents' = Append(itemEvents, [type |-> "INSERT", id |-> id, user_id |-> "you"])
    /\ UNCHANGED <<lastRead, item>>

\* The collaborator deletes a comment of theirs.
DeleteByOther(id) ==
    /\ DeleteComment(id)
    /\ dbCreatedAt[id].user_id = "you"
    /\ itemEvents' = Append(itemEvents, [type |-> "DELETE", id |-> id, user_id |-> "you"])
    /\ UNCHANGED <<clock, dbCreatedAt, lastRead, item>>

\* TaskItem's postgres_changes callback, lines 100-120, for the next event.
ItemDeliver ==
    /\ itemEvents # <<>>
    /\ itemEvents' = Tail(itemEvents)
    /\ LET e == Head(itemEvents)
       IN IF e.type = "INSERT"
          THEN Commit([item EXCEPT !.hasComments = TRUE,
                                   !.hasUnreadComments = @ \/ e.user_id # Me])
          ELSE /\ item' = [item EXCEPT !.counts = @ + 1]
               /\ UNCHANGED <<clock, lastRead>>
    /\ UNCHANGED <<dbCreatedAt, forestVars, joinVars,
                   open, comments, dbComments, channel, events, lookups, cfetches, send, newText>>

\* Lines 110-118: the count query of the DELETE branch is answered.
ItemCounted ==
    /\ item.counts > 0
    /\ LET it == [item EXCEPT !.counts = @ - 1]
       IN Commit(IF Rows = {}
                 THEN [it EXCEPT !.hasComments = FALSE, !.hasUnreadComments = FALSE]
                 ELSE [it EXCEPT !.hasComments = TRUE])
    /\ UNCHANGED <<dbCreatedAt, itemEvents, forestVars, joinVars,
                   open, comments, dbComments, channel, events, lookups, cfetches, send, newText>>

\* Lines 74-81: the query of checkUnreadComments is answered.
ItemChecked(since) ==
    /\ since \in item.checks
    /\ Commit([item EXCEPT !.checks = @ \ {since},
                           !.hasUnreadComments = RecentComments(since)])
    /\ UNCHANGED <<dbCreatedAt, itemEvents, forestVars, joinVars,
                   open, comments, dbComments, channel, events, lookups, cfetches, send, newText>>

\* The page is loaded again with the panel closed: TaskItem mounts, its
\* effect finds hasComments false and sets hasUnreadComments false.
Reload ==
    /\ ~open
    /\ \A s \in 1..MaxFetches : cfetches[s] = NoFetch
    /\ item # MountedItem \/ itemEvents # <<>>
    /\ item' = MountedItem
    /\ itemEvents' = <<>>
    /\ UNCHANGED <<clock, dbCreatedAt, lastRead, forestVars, joinVars,
                   open, comments, dbComments, channel, events, lookups, cfetches, send, newText>>

\* ------------------------------------------------------- SpecUnread
\* One task of a shared notebook: the viewer opens and closes its thread and
\* loads the page again while a collaborator comments and deletes.
InitUnread ==
    /\ ForestAtRest
    /\ ThreadAtRest
    /\ JoinAtRest
    /\ obs = [phase |-> "none", markBefore |-> FALSE]

ItemFrame == UNCHANGED <<forestVars, joinVars>>

OpenComments ==
    /\ OpenItem
    /\ ItemFrame
    /\ obs' = [phase |-> "opened", markBefore |-> item.hasUnreadComments]

CloseComments ==
    /\ Close
    /\ UNCHANGED itemVars
    /\ ItemFrame
    /\ obs' = [obs EXCEPT !.phase = "closed"]

PanelLoads ==
    /\ \/ Subscribed /\ UNCHANGED toast
       \/ \E s \in 1..MaxFetches, ok \in BOOLEAN : FetchCommentRows(s, ok)
       \/ \E s \in 1..MaxFetches : FetchCommentProfiles(s) /\ UNCHANGED toast
    /\ UNCHANGED <<forestVars, shareVars, itemVars, obs>>

OtherComments ==
    \E id \in 1..MaxComments :
        /\ InsertByOther(id)
        /\ ItemFrame
        /\ UNCHANGED obs

OtherDeletes ==
    \E id \in 1..MaxComments :
        /\ DeleteByOther(id)
        /\ ItemFrame
        /\ UNCHANGED obs

ItemEvent ==
    /\ ItemDeliver
    /\ UNCHANGED obs

ItemAnswer ==
    /\ ItemCounted \/ \E since \in 0..MaxTime : ItemChecked(since)
    /\ UNCHANGED obs

LoadAgain ==
    /\ Reload
    /\ obs' = [obs EXCEPT !.phase = "loaded"]

NextUnread ==
    \/ OpenComments
    \/ CloseComments
    \/ PanelLoads
    \/ OtherComments
    \/ OtherDeletes
    \/ ItemEvent
    \/ ItemAnswer
    \/ LoadAgain

SpecUnread == InitUnread /\ [][NextUnread]_vars

\* ----------------------------------------------- properties of SpecUnread
\* C25: a step that opens the thread leaves the stored last-read time of the
\* task and the viewer at the time of the step, and no unread mark.
C25_OpenMarksRead ==
    [][(~open /\ open') =>
          /\ lastRead' = clock'
          /\ clock' > clock
          /\ ~item'.hasUnreadComments]_vars

\* The thread was opened with the unread mark set by a collaborator's comment.
C25_Witness ==
    /\ open
    /\ obs.phase = "opened"
    /\ obs.markBefore
    /\ lastRead = clock
    /\ ~item.hasUnreadComments
    /\ \E c \in Rows : dbCreatedAt[c].created_at < lastRead

ItemSettled == itemEvents = <<>> /\ item.checks = {} /\ item.counts = 0

\* C26: once every event has been handled and every query answered, the
\* thread has the unread mark exactly when it is closed and some comment of
\* the task was created after the stored last-read time (any comment, when
\* no time is stored).
C26_UnreadIffNewer ==
    ItemSettled => (item.hasUnreadComments <=> (~open /\ RecentComments(lastRead)))

\* ------------------------------------------------------- task folders
\* A function without the argument x.
Without(f, x) == [y \in DOMAIN f \ {x} |-> f[y]]

\* A foreign key that deletes the tasks of the folder with it.
OnDeleteCascade(db, f) == [t \in {u \in DOMAIN db : db[u].folder_id # f} |-> db[t]]

\* tasks.folder_id REFERENCES task_folders(id) ON DELETE SET NULL.
OnDeleteSetNull(db, f) ==
    [t \in DOMAIN db |-> IF db[t].folder_id = f THEN [db[t] EXCEPT !.folder_id = Root] ELSE db[t]]

\* A folder operation goes out: the request of its update or delete.
FolderOp(kind, f, title, isCollapsed) ==
    /\ FreeSlot(folderOps, NoFolderOp) # 0
    /\ f \in DOMAIN folders
    /\ folderOps' = [folderOps EXCEPT ![FreeSlot(folderOps, NoFolderOp)] =
                        [pc |-> "write", kind |-> kind, folderId |-> f,
                         title |-> title, is_collapsed |-> isCollapsed, ok |-> TRUE]]
    /\ UNCHANGED <<notebooks, dbTasks, dbCompletions, mutations, fetches, toggles, renames,
                   folders, dbFolders, folderReads>>

\* renameFolder(folderId, title), lines 669-683.
RenameFolder(f, title) == FolderOp("rename", f, title, FALSE)

\* deleteFolder(folderId), lines 685-699.
DeleteFolder(f) == FolderOp("delete", f, "", FALSE)

\* toggleFolderCollapse(folderId, isCollapsed), lines 701-720.
ToggleFolderCollapse(f, isCollapsed) == FolderOp("collapse", f, "", isCollapsed)

FolderOutcomes == {"written", "refused", "error"}

\* The store answers the request: the row is written or deleted, or the
\* policy matches no row (no error), or an error.
FolderWrite(s, outcome) ==
    LET op == folderOps[s]
        hit == outcome = "written" /\ op.folderId \in DOMAIN dbFolders
    IN /\ op.pc = "write"
       /\ dbFolders' = IF ~hit THEN dbFolders
                       ELSE IF op.kind = "delete" THEN Without(dbFolders, op.folderId)
                       ELSE IF op.kind = "rename"
                       THEN [dbFolders EXCEPT ![op.folderId].title = op.title]
                       ELSE [dbFolders EXCEPT ![op.folderId].is_collapsed = op.is_collapsed]
       /\ dbTasks' = IF hit /\ op.kind = "delete"
                     THEN OnDeleteSetNull(dbTasks, op.folderId)
                     ELSE dbTasks
       /\ folderOps' = [folderOps EXCEPT ![s].pc = "answered", ![s].ok = outcome # "error"]
       /\ UNCHANGED <<notebooks, dbCompletions, mutations, fetches, toggles, renames,
                      folders, folderReads>>

\* toast.error(...) of the catch blocks, lines 680, 696 and 718 (which has
\* console.error alone).
FolderFailure(kind) ==
    IF kind = "rename" THEN "Failed to rename folder"
    ELSE IF kind = "delete" THEN "Failed to delete folder"
    ELSE "none"

\* The handler goes on after its await: fetchNotebooks() or the patch of
\* is_collapsed, or the catch block.
FolderOpDone(s) ==
    LET op == folderOps[s]
        refetches == op.ok /\ op.kind \in {"rename", "delete"}
    IN /\ op.pc = "answered"
       /\ refetches => FreeSlot(fetches, NoFetch) # 0
       /\ fetches' = IF refetches THEN StartFetch(fetches) ELSE fetches
       /\ folders' = IF op.ok /\ op.kind = "collapse" /\ op.folderId \in DOMAIN folders
                     THEN [folders EXCEPT ![op.folderId].is_collapsed = op.is_collapsed]
                     ELSE folders
       /\ toast' = IF op.ok \/ FolderFailure(op.kind) = "none" THEN toast
                   ELSE [toast EXCEPT ![Me] = FolderFailure(op.kind)]
       /\ folderOps' = [folderOps EXCEPT ![s] = NoFolderOp]
       /\ UNCHANGED <<notebooks, dbTasks, dbCompletions, mutations, toggles, renames,
                      dbFolders, folderReads>>

\* fetchNotebooks, lines 130-140: the task_folders query is answered, before
\* the tasks query goes out.
FetchFolders(s) ==
    /\ fetches[s].pc = "tasks"
    /\ ~folderReads[s].read
    /\ folderReads' = [folderReads EXCEPT ![s] = [read |-> TRUE, rows |-> dbFolders]]
    /\ UNCHANGED <<notebooks, dbTasks, dbCompletions, mutations, fetches, toggles, renames,
                   folders, dbFolders, folderOps>>

\* fetchNotebooks, lines 205-225: the folders of the note are the rows read.
FetchDoneFolders(s) ==
    /\ FetchDone(s)
    /\ folders' = folderReads[s].rows
    /\ folderReads' = [folderReads EXCEPT ![s] = NoFolderRead]
    /\ UNCHANGED <<dbFolders, folderOps>>

\* ------------------------------------------------------- SpecFolder
\* The viewer renames, collapses and deletes the folder of the note and drags
\* tasks in and out of it; every write may fail or match no row.
InitFolder ==
    /\ ThreadAtRest
    /\ JoinAtRest
    /\ dbTasks \in InitialStores
    /\ dbCompletions = {}
    /\ notebooks = BuildForest(dbTasks, dbCompletions)
    /\ Idle
    /\ FoldersAtRest
    /\ NotesAtRest
    /\ obs = [phase |-> "none", count |-> 0, kind |-> "none", inFolder |-> {}, slot |-> 0]

ClickFolder ==
    \E f \in Folders :
        /\ obs.count < MaxFolderClicks
        /\ \/ \E title \in Titles : RenameFolder(f, title)
           \/ DeleteFolder(f)
           \/ ToggleFolderCollapse(f, ~folders[f].is_collapsed)
        /\ UNCHANGED <<noteVars, threadVars, joinVars>>
        /\ obs' = [obs EXCEPT !.count = @ + 1]

AnswerFolder ==
    \E s \in 1..MaxFolderOps, outcome \in FolderOutcomes :
        /\ FolderWrite(s, outcome)
        /\ UNCHANGED <<noteVars, threadVars, joinVars>>
        /\ obs' = IF dbFolders' # dbFolders /\ folderOps[s].kind = "delete"
                  THEN [obs EXCEPT !.phase = "deleted",
                                   !.inFolder = {t \in DOMAIN dbTasks :
                                                    dbTasks[t].folder_id = folderOps[s].folderId}]
                  ELSE obs

FinishFolder ==
    \E s \in 1..MaxFolderOps :
        /\ FolderOpDone(s)
        /\ UNCHANGED <<noteVars, threadVars, shareVars>>
        /\ obs' = IF folderOps[s].ok /\ folderOps[s].kind = "delete" /\ obs.phase = "deleted"
                  THEN [obs EXCEPT !.phase = "refetching",
                                   !.slot = FreeSlot(fetches, NoFetch)]
                  ELSE [obs EXCEPT !.kind = IF folderOps[s].ok THEN "none"
                                            ELSE folderOps[s].kind]

DragInFolders ==
    \E activeId \in Tasks, overId \in Tasks \cup DOMAIN folders \cup {RootZone} :
        /\ obs.count < MaxFolderClicks
        /\ HandleTaskDragEnd(activeId, overId)
        /\ UNCHANGED <<folderVars, noteVars, threadVars, joinVars>>
        /\ obs' = [obs EXCEPT !.count = @ + 1]

\* The update of folder_id to a folder that is gone violates the foreign key.
WriteInFolders ==
    /\ \/ \E s \in 1..MaxMutations, id \in Tasks, ok \in BOOLEAN : ReorderWrite(s, id, ok)
       \/ \E s \in 1..MaxMutations, ok \in BOOLEAN :
             /\ MoveWrite(s, ok)
             /\ ok => mutations[s].folderId \in DOMAIN dbFolders \cup {Root}
    /\ UNCHANGED <<obs, folderVars, noteVars, threadVars, joinVars>>

SettleInFolders ==
    \E s \in 1..MaxMutations :
        /\ Settle(s)
        /\ UNCHANGED <<obs, folderVars, noteVars, threadVars, shareVars>>

AnswerFolderFetch ==
    \E s \in 1..MaxFetches :
        /\ \/ FetchFolders(s)
           \/ FetchTasks(s) /\ folderReads[s].read /\ UNCHANGED folderVars
           \/ FetchCompletions(s) /\ UNCHANGED folderVars
        /\ UNCHANGED <<obs, noteVars, threadVars, joinVars>>

LandFolderFetch ==
    \E s \in 1..MaxFetches :
        /\ FetchDoneFolders(s)
        /\ UNCHANGED <<noteVars, threadVars, joinVars>>
        /\ obs' = IF obs.phase = "refetching" /\ obs.slot = s
                  THEN [obs EXCEPT !.phase = "landed", !.slot = 0]
                  ELSE obs

NextFolder ==
    \/ ClickFolder
    \/ AnswerFolder
    \/ FinishFolder
    \/ DragInFolders
    \/ WriteInFolders
    \/ SettleInFolders
    \/ AnswerFolderFetch
    \/ LandFolderFetch

SpecFolder == InitFolder /\ [][NextFolder]_vars

\* ----------------------------------------------- properties of SpecFolder
FolderQuiet ==
    /\ \A s \in 1..MaxMutations : mutations[s] = NoMutation
    /\ \A s \in 1..MaxFetches : fetches[s] = NoFetch
    /\ \A s \in 1..MaxFolderOps : folderOps[s] = NoFolderOp

C29_FailureIsShown ==
    [][\A s \in 1..MaxFolderOps :
          (folderOps[s].pc = "answered" /\ ~folderOps[s].ok /\ folderOps'[s] = NoFolderOp)
              => toast'[Me] # "none"]_vars

\* ------------------------------------------------------- SpecRename
\* The viewer leaves the title input of a notebook, a note, a folder or a
\* task: handleRename decides whether the rename goes out.
Kinds == {"notebook", "note", "folder", "task"}
RenameInputs == {"", " ", "t0", " t0", "t0 ", "t1", " t1 "}
NoCall == [called |-> FALSE, title |-> ""]

\* NotebookSidebar.handleRename, lines 259-264.
HandleRenameNotebook(editTitle, title) ==
    IF Trim(editTitle) # "" THEN [called |-> TRUE, title |-> Trim(editTitle)] ELSE NoCall

\* NoteCard.handleRename, TaskFolder.handleRename, TaskItem.handleRename.
HandleRename(editTitle, title) ==
    IF Trim(editTitle) # "" /\ editTitle # title
    THEN [called |-> TRUE, title |-> Trim(editTitle)]
    ELSE NoCall

InitRename ==
    /\ ForestAtRest
    /\ ThreadAtRest
    /\ JoinAtRest
    /\ obs \in [phase : {"editing"}, kind : Kinds, editTitle : RenameInputs,
                title : Titles, call : {NoCall}]

Handled(call) ==
    /\ obs.phase = "editing"
    /\ obs' = [obs EXCEPT !.phase = "handled", !.call = call]
    /\ UNCHANGED <<forestVars, threadVars, joinVars>>

BlurNotebookTitle ==
    /\ obs.kind = "notebook"
    /\ Handled(HandleRenameNotebook(obs.editTitle, obs.title))

BlurNoteTitle ==
    /\ obs.kind = "note"
    /\ Handled(HandleRename(obs.editTitle, obs.title))

BlurFolderTitle ==
    /\ obs.kind = "folder"
    /\ Handled(HandleRename(obs.editTitle, obs.title))

BlurTaskTitle ==
    /\ obs.kind = "task"
    /\ Handled(HandleRename(obs.editTitle, obs.title))

NextRename ==
    \/ BlurNotebookTitle
    \/ BlurNoteTitle
    \/ BlurFolderTitle
    \/ BlurTaskTitle

SpecRename == InitRename /\ [][NextRename]_vars

\* C28: a rename whose title is empty once trimmed, or is the title the
\* entity has, calls no rename operation, whatever the kind of the entity.
C28_TrivialRenameSkipped ==
    (obs.phase = "handled" /\ (Trim(obs.editTitle) = "" \/ Trim(obs.editTitle) = obs.title))
        => ~obs.call.called

\* ------------------------------------------------------- creations
NoteOrder == <<"n1", "n2", "n3">>       \* notes rows, in the store's row order
NoteRank(n) == IndexOf(NoteOrder, n)

\* order_index INTEGER DEFAULT 0: the value of a row inserted without one.
DefaultOrderIndex == 0

\* gen_random_uuid(): the next row of the table, in the store's row order.
NextId(order, used) ==
    IF \E i \in DOMAIN order : order[i] \notin used
    THEN order[CHOOSE i \in DOMAIN order :
                   order[i] \notin used /\ \A j \in DOMAIN order : order[j] \notin used => i <= j]
    ELSE "none"

\* A function with one more argument.
With(f, x, v) == [y \in DOMAIN f \cup {x} |-> IF y = x THEN v ELSE f[y]]

\* Math.max(...folderTasks.map(t => t.order_index || 0)), or -1 for none.
MaxOrder(ts) ==
    IF ts = <<>> THEN -1
    ELSE CHOOSE m \in {ts[i].order_index : i \in DOMAIN ts} :
             \A i \in DOMAIN ts : ts[i].order_index <= m

FindNote(ns, id) == IF \E i \in DOMAIN ns : ns[i].id = id
                    THEN ns[CHOOSE i \in DOMAIN ns : ns[i].id = id]
                    ELSE [id |-> "none", order_index |-> 0, tasks |-> "array", folders |-> "array"]

AddCall(kind, folderId, orderIndex) ==
    /\ FreeSlot(adds, NoAdd) # 0
    /\ adds' = [adds EXCEPT ![FreeSlot(adds, NoAdd)] =
                   [pc |-> "insert", kind |-> kind, folder_id |-> folderId,
                    order_index |-> orderIndex, ok |-> TRUE, id |-> "none"]]
    /\ UNCHANGED <<notebooks, dbTasks, dbCompletions, mutations, fetches, toggles, renames,
                   folderVars, notes, dbNotes, noteReads, toast>>

\* addNote(notebookId, title), lines 297-303: the insert carries no order_index.
AddNote == AddCall("note", Root, DefaultOrderIndex)

\* addTask(notebookId, noteId, title, folderId), lines 358-374: the insert
\* carries the largest order_index of the container in the forest, plus one.
AddTask(folderId) ==
    /\ folderId \in DOMAIN folders \cup {Root}
    /\ AddCall("task", folderId, MaxOrder(TasksIn(notebooks, folderId)) + 1)

\* addFolder(noteId, title), lines 642-656: `note?.folders.length` throws for
\* a note without a folders array, and the catch block toasts; else the insert
\* goes out.
AddFolder(noteId) ==
    LET note == FindNote(notes, noteId)
    IN /\ note.id # "none"
       /\ IF note.folders = "undefined"
          THEN /\ toast' = [toast EXCEPT ![Me] = "Failed to create folder"]
               /\ UNCHANGED <<notebooks, dbTasks, dbCompletions, mutations, fetches, toggles,
                              renames, folderVars, noteVars>>
          ELSE /\ noteId = FirstNote
               /\ NextId(<<"F">>, DOMAIN dbFolders) # "none"
               /\ AddCall("folder", Root, DefaultOrderIndex)

\* The store answers the insert with the new row, or with an error.
AddInsert(s, ok) ==
    LET a == adds[s]
        id == IF a.kind = "task" THEN NextId(TaskOrder, DOMAIN dbTasks)
              ELSE IF a.kind = "note" THEN NextId(NoteOrder, DOMAIN dbNotes)
              ELSE NextId(<<"F">>, DOMAIN dbFolders)
    IN /\ a.pc = "insert"
       /\ ok => id # "none"
       /\ dbTasks' = IF ok /\ a.kind = "task"
                     THEN With(dbTasks, id, [title |-> FirstTitle, folder_id |-> a.folder_id,
                                             order_index |-> a.order_index])
                     ELSE dbTasks
       /\ dbNotes' = IF ok /\ a.kind = "note"
                     THEN With(dbNotes, id, [order_index |-> a.order_index])
                     ELSE dbNotes
       /\ dbFolders' = IF ok /\ a.kind = "folder"
                       THEN With(dbFolders, id, [title |-> FirstTitle, is_collapsed |-> FALSE])
                       ELSE dbFolders
       /\ adds' = [adds EXCEPT ![s].pc = "answered", ![s].ok = ok,
                               ![s].id = IF ok THEN id ELSE "none"]
       /\ UNCHANGED <<notebooks, dbCompletions, mutations, fetches, toggles, renames,
                      folders, folderReads, folderOps, notes, noteReads, toast>>

\* addNote, lines 306-310: { ...data, tasks: [] }.
AddedNote(id, orderIndex) ==
    [id |-> id, order_index |-> orderIndex, tasks |-> "array", folders |-> "undefined"]

AddFailure(kind) == IF kind = "task" THEN "Failed to create task"
                    ELSE IF kind = "note" THEN "Failed to create note"
                    ELSE "Failed to create folder"

\* The handler goes on after its await: the row is appended to the forest
\* (note, task) or fetchNotebooks() is called (folder), or the catch block.
AddDone(s) ==
    LET a == adds[s]
    IN /\ a.pc = "answered"
       /\ (a.ok /\ a.kind = "folder") => FreeSlot(fetches, NoFetch) # 0
       /\ notebooks' = IF a.ok /\ a.kind = "task"
                       THEN Append(notebooks,
                                   [id |-> a.id, title |-> FirstTitle, folder_id |-> a.folder_id,
                                    order_index |-> a.order_index,
                                    completedBy |-> <<>>, completions |-> <<>>])
                       ELSE notebooks
       /\ notes' = IF a.ok /\ a.kind = "note"
                   THEN Append(notes, AddedNote(a.id, a.order_index))
                   ELSE notes
       /\ fetches' = IF a.ok /\ a.kind = "folder" THEN StartFetch(fetches) ELSE fetches
       /\ toast' = IF a.ok THEN toast ELSE [toast EXCEPT ![Me] = AddFailure(a.kind)]
       /\ adds' = [adds EXCEPT ![s] = NoAdd]
       /\ UNCHANGED <<dbTasks, dbCompletions, mutations, toggles, renames,
                      folderVars, dbNotes, noteReads>>

\* fetchNotebooks, lines 123-128: the notes query is answered, before the
\* folders query goes out.
FetchNotes(s) ==
    /\ fetches[s].pc = "tasks"
    /\ ~noteReads[s].read
    /\ noteReads' = [noteReads EXCEPT ![s] = [read |-> TRUE, rows |-> dbNotes]]
    /\ UNCHANGED <<notebooks, dbTasks, dbCompletions, mutations, fetches, toggles, renames,
                   folderVars, notes, dbNotes, adds>>

\* .order('order_index', { ascending: true }) of the notes rows.
RECURSIVE OrderedNotes(_, _)
OrderedNotes(rows, S) ==
    IF S = {} THEN <<>>
    ELSE LET m == CHOOSE n \in S : \A o \in S :
                      \/ rows[n].order_index < rows[o].order_index
                      \/ rows[n].order_index = rows[o].order_index /\ NoteRank(n) <= NoteRank(o)
         IN <<m>> \o OrderedNotes(rows, S \ {m})

BuildNotes(rows) ==
    LET ids == OrderedNotes(rows, DOMAIN rows)
    IN [i \in DOMAIN ids |-> BuiltNote(ids[i], rows[ids[i]])]

\* fetchNotebooks, lines 205-225: setNotebooks with the notes it built.
FetchDoneNotes(s) ==
    /\ FetchDoneFolders(s)
    /\ notes' = BuildNotes(noteReads[s].rows)
    /\ noteReads' = [noteReads EXCEPT ![s] = NoNoteRead]
    /\ UNCHANGED <<dbNotes, adds>>

\* ------------------------------------------------------- SpecAdd
\* The viewer adds notes to the notebook and tasks and a folder to its first
\* note, without waiting for the answers; every insert may fail.
AddStores ==
    {[t \in S |-> [title |-> FirstTitle, folder_id |-> c, order_index |-> 0]] :
        S \in {{}, {TaskOrder[1]}}, c \in Containers}

InitAdd ==
    /\ ThreadAtRest
    /\ JoinAtRest
    /\ dbTasks \in AddStores
    /\ dbCompletions = {}
    /\ notebooks = BuildForest(dbTasks, dbCompletions)
    /\ Idle
    /\ FoldersAtRest
    /\ NotesAtRest
    /\ obs = [phase |-> "none", count |-> 0]

ClickAdd ==
    /\ obs.count < MaxCreations
    /\ \/ AddNote
       \/ \E c \in Containers : AddTask(c)
       \/ \E n \in Range(NoteOrder) : AddFolder(n)
    /\ UNCHANGED <<threadVars, shareVars>>
    /\ obs' = [obs EXCEPT !.count = @ + 1]

AnswerAdd ==
    \E s \in 1..MaxAdds, ok \in BOOLEAN :
        /\ AddInsert(s, ok)
        /\ UNCHANGED <<threadVars, shareVars>>
        /\ obs' = [obs EXCEPT !.phase = "inserted"]

FinishAdd ==
    \E s \in 1..MaxAdds :
        /\ AddDone(s)
        /\ UNCHANGED <<threadVars, shareVars>>
        /\ obs' = [obs EXCEPT !.phase = "added"]

RefetchAdded ==
    /\ Refetch
    /\ UNCHANGED <<obs, folderVars, noteVars, threadVars, joinVars>>

AnswerAddFetch ==
    \E s \in 1..MaxFetches :
        /\ \/ FetchNotes(s) /\ UNCHANGED folderVars
           \/ FetchFolders(s) /\ noteReads[s].read /\ UNCHANGED noteVars
           \/ FetchTasks(s) /\ folderReads[s].read /\ UNCHANGED <<folderVars, noteVars>>
           \/ FetchCompletions(s) /\ UNCHANGED <<folderVars, noteVars>>
        /\ UNCHANGED <<obs, threadVars, joinVars>>

LandAddFetch ==
    \E s \in 1..MaxFetches :
        /\ FetchDoneNotes(s)
        /\ UNCHANGED <<threadVars, joinVars>>
        /\ obs' = [obs EXCEPT !.phase = "refetched"]

NextAdd ==
    \/ ClickAdd
    \/ AnswerAdd
    \/ FinishAdd
    \/ RefetchAdded
    \/ AnswerAddFetch
    \/ LandAddFetch

SpecAdd == InitAdd /\ [][NextAdd]_vars

\* ----------------------------------------------- properties of SpecAdd
\* C31: the step that inserts a task or a note gives it an order_index
\* greater than that of every row already in its container.
C31_NewRowSortsLast ==
    [][/\ \A t \in DOMAIN dbTasks' \ DOMAIN dbTasks : \A u \in DOMAIN dbTasks :
              dbTasks[u].folder_id = dbTasks'[t].folder_id
                  => dbTasks'[t].order_index > dbTasks[u].order_index
       /\ \A n \in DOMAIN dbNotes' \ DOMAIN dbNotes : \A o \in DOMAIN dbNotes :
              dbNotes'[n].order_index > dbNotes[o].order_index]_vars

\* C32: every note of the forest has a tasks array and a folders array.
C32_NotesHaveArrays ==
    \A i \in DOMAIN notes : notes[i].tasks = "array" /\ notes[i].folders = "array"

\* -------------------------------------------- fetchNotebooks: failed queries
\* fetchNotebooks, lines 71-84 and 226-229: the notebooks query or the
\* membership query is answered with an error; it is thrown, the catch block
\* toasts and setNotebooks is not reached.
FetchThrows(s) ==
    /\ fetches[s].pc = "tasks"
    /\ fetches' = [fetches EXCEPT ![s] = NoFetch]
    /\ toast' = [toast EXCEPT ![Me] = "Failed to load notebooks"]
    /\ UNCHANGED <<notebooks, dbTasks, dbCompletions, mutations, toggles, renames>>

\* fetchNotebooks, lines 143-154: the tasks query is answered with an error,
\* which is not read; taskData is null, tasks is [] and, with no task ids, the
\* completions query is not sent.
FetchTasksFailed(s) ==
    /\ fetches[s].pc = "tasks"
    /\ fetches' = [fetches EXCEPT ![s] = [pc |-> "done", tasks |-> <<>>, completions |-> {}]]
    /\ UNCHANGED <<notebooks, dbTasks, dbCompletions, mutations, toggles, renames>>

\* fetchNotebooks, lines 157-163: the task_completions query is answered with
\* an error, which is not read; completionData is null and completions stays [].
FetchCompletionsFailed(s) ==
    /\ fetches[s].pc = "completions"
    /\ fetches' = [fetches EXCEPT ![s] = [pc |-> "done", tasks |-> fetches[s].tasks,
                                          completions |-> {}]]
    /\ UNCHANGED <<notebooks, dbTasks, dbCompletions, mutations, toggles, renames>>

\* toggleTask in a collaborator's session, lines 472-476: their
\* task_completions row is inserted.
OtherCompletes(t) ==
    /\ <<t, "you">> \notin dbCompletions
    /\ dbCompletions' = dbCompletions \cup {<<t, "you">>}
    /\ UNCHANGED <<notebooks, dbTasks, mutations, fetches, toggles, renames>>

\* ----------------------------------------------------- SpecRefetch
\* fetchNotebooks runs while a collaborator completes tasks, and each of its
\* queries may fail.  `obs.failed` holds the fetch slots one of whose queries
\* failed since the slot was last started.
InitRefetch ==
    /\ ForestAtRest
    /\ ThreadAtRest
    /\ JoinAtRest
    /\ obs = [phase |-> "none", count |-> 0, failed |-> {}]

RefetchFrame == UNCHANGED <<folderVars, noteVars, threadVars>>

CollaboratorCompletes ==
    \E t \in Tasks :
        /\ OtherCompletes(t)
        /\ RefetchFrame
        /\ UNCHANGED <<obs, joinVars>>

RefetchForest ==
    /\ Refetch
    /\ RefetchFrame
    /\ UNCHANGED joinVars
    /\ obs' = [obs EXCEPT !.failed = @ \ {FreeSlot(fetches, NoFetch)}]

ThrowInFetch ==
    \E s \in 1..MaxFetches :
        /\ FetchThrows(s)
        /\ RefetchFrame
        /\ UNCHANGED shareVars
        /\ obs' = [obs EXCEPT !.failed = @ \cup {s}]

AnswerTasksQuery ==
    \E s \in 1..MaxFetches :
        /\ RefetchFrame
        /\ UNCHANGED joinVars
        /\ \/ FetchTasks(s) /\ UNCHANGED obs
           \/ FetchTasksFailed(s) /\ obs' = [obs EXCEPT !.failed = @ \cup {s}]

AnswerCompletionsQuery ==
    \E s \in 1..MaxFetches :
        /\ RefetchFrame
        /\ UNCHANGED joinVars
        /\ \/ FetchCompletions(s) /\ UNCHANGED obs
           \/ FetchCompletionsFailed(s) /\ obs' = [obs EXCEPT !.failed = @ \cup {s}]

LandRefetch ==
    \E s \in 1..MaxFetches :
        /\ FetchDone(s)
        /\ RefetchFrame
        /\ UNCHANGED <<obs, joinVars>>

NextRefetch ==
    \/ CollaboratorCompletes
    \/ RefetchForest
    \/ ThrowInFetch
    \/ AnswerTasksQuery
    \/ AnswerCompletionsQuery
    \/ LandRefetch

SpecRefetch == InitRefetch /\ [][NextRefetch]_vars

\* --------------------------------------------- properties of SpecRefetch
\* C36: the step that ends a fetchNotebooks call one of whose queries failed
\* leaves the forest as it was.
C36_FailedFetchKeepsForest ==
    [][\A s \in 1..MaxFetches :
          (fetches[s] # NoFetch /\ fetches'[s] = NoFetch /\ s \in obs'.failed)
              => notebooks' = notebooks]_vars

====
